---- MODULE Spec2Model ----
(***************************************************************************)
(* Model of the charging-demand controller of sumo_snvc:                   *)
(*   - the vehicle search-state tracker of simulation/reroutings.py        *)
(*     (tick_update_vehicle, handle_arrival), specification SpecTracker;   *)
(*   - the power allocation of simulation/simulation.py                    *)
(*     (run_simulation's occupancy list, calculateAliquotPowerAdjustments, *)
(*     setChargingStationPowers), specification SpecPower.                 *)
(*                                                                         *)
(* Strings that the code splits on "_" are modelled as the sequence of     *)
(* their parts: "cs_e1_0" is <<"cs","e1","0">>, "" is <<"">> and "NULL" is *)
(* <<"NULL">>, which is what str.split("_") yields.  Python's None is the  *)
(* empty tuple and a present value x is <<x>>.                             *)
(***************************************************************************)
EXTENDS Integers, Sequences, FiniteSets, TLC

VARIABLES
    \* ---- tracker: the dict built by new_rerouting_data ----
    veh_state,                \* data["veh_state"]: veh_id -> per-vehicle state
    per_station,              \* data["per_station"]: cs_id -> station data
    group_session_starts,     \* data["_group_session_starts"]: group -> int
    group_sessions_with_out,  \* data["_group_sessions_with_out"]: group -> int
    now,                      \* traci.simulation.getTime()
    phase,                    \* which loop of the iteration is running
    cursor,                   \* rank of the vehicle that loop handled last
    arrivals,                 \* number of handle_arrival calls so far (bounded)
    \* ---- history of the observations, kept for stating the properties ----
    hist,                     \* per vehicle: what was fed since its last arrival
    last,                     \* the last call and the history it found
    tally,                    \* per group: the sessions counted from the calls
    \* ---- power controller: the parameters held by the engine ----
    vehList,                  \* run_simulation's list of charging vehicles
    vehCs,                    \* device.battery.chargingStationId of an occupant
    actualBattery,            \* device.battery.actualBatteryCapacity
    desiredPower,             \* chargingstation parameter "desiredPower" (thirds)
    aliquot,                  \* chargingstation parameter "aliquotPowerAdjustment"
    power,                    \* chargingstation parameter "power"
    groupPower,               \* chargingstation parameter "groupPower", per group
    ptick,                    \* number of simulation steps of the power loop
    \* ---- the end of the run and the helpers called on their own ----
    report,                   \* what finalize_json returned, None before
    calc                      \* a helper's call: its name, arguments and result

trackerVars == <<veh_state, per_station, group_session_starts,
                 group_sessions_with_out, now, phase, cursor, arrivals, hist,
                 last, tally>>
powerVars == <<vehList, vehCs, actualBattery, desiredPower, aliquot, power,
               groupPower, ptick>>
helperVars == <<report, calc>>
vars == <<veh_state, per_station, group_session_starts,
          group_sessions_with_out, now, phase, cursor, arrivals, hist, last,
          vehList, vehCs, actualBattery, desiredPower, aliquot, power,
          groupPower, ptick, report, calc, tally>>

(***************************************************************************)
(* Bounds of the model.                                                    *)
(***************************************************************************)
MaxTime == 3
MaxArrivals == 2

VehOrder == <<"v1", "v2">>
Vehicles == {VehOrder[i] : i \in 1..Len(VehOrder)}

\* Python values
EmptyStr == <<"">>
NULL == <<"NULL">>
None == <<>>
Some(x) == <<x>>

\* charging-point ids fed to the tracker: two points of group e1, one of e2,
\* and "cs_e1", which does not have the form cs_<group>_<index>
csA0 == <<"cs", "e1", "0">>
csA1 == <<"cs", "e1", "1">>
csB0 == <<"cs", "e2", "0">>
csBad == <<"cs", "e1">>
StationIds == {csA0, csA1, csB0, csBad}
Candidates == StationIds \cup {EmptyStr}
Assigned == {NULL, csA0}
ArrivalIds == StationIds \cup {EmptyStr, NULL}

(***************************************************************************)
(* Exact arithmetic for the code's floats.                                  *)
(***************************************************************************)
RECURSIVE Gcd(_, _)
Gcd(a, b) == IF b = 0 THEN a ELSE Gcd(b, a % b)

\* the fraction n/d (d > 0, n >= 0) in lowest terms
Frac(n, d) == LET g == Gcd(n, d) IN <<n \div g, d \div g>>
FracAdd(x, y) == Frac(x[1] * y[2] + y[1] * x[2], x[2] * y[2])
FracLeq(x, y) == x[1] * y[2] <= y[1] * x[2]

Min(a, b) == IF a <= b THEN a ELSE b

RECURSIVE SeqSum(_)
SeqSum(q) == IF q = <<>> THEN 0 ELSE Head(q) + SeqSum(Tail(q))

(***************************************************************************)
(* reroutings.py: helpers                                                  *)
(***************************************************************************)
get_group_id(cs_id) ==
    IF cs_id = EmptyStr \/ cs_id = NULL THEN ""
    ELSE IF Len(cs_id) >= 3 THEN cs_id[2] ELSE ""

_new_station_data ==
    [sessions |-> 0,
     search_times |-> <<>>,
     reroute_in_times |-> <<>>,
     reroute_in_count |-> 0,
     reroute_out_times |-> <<>>,
     reroute_out_count |-> 0,
     sessions_with_in |-> 0,
     sessions_with_out |-> 0]

_new_veh_state ==
    [prev_s |-> EmptyStr,
     prev_b |-> NULL,
     search_active |-> FALSE,
     search_start_t |-> None,
     search_target_station |-> EmptyStr,
     search_target_group |-> "",
     pending_reroute |-> None,
     current_group |-> ""]

_ensure_station(ps, cs_id) ==
    IF cs_id \in DOMAIN ps THEN ps ELSE (cs_id :> _new_station_data) @@ ps

\* dict.get(k, 0) and d[k] = d.get(k, 0) + 1
dict_get(d, k) == IF k \in DOMAIN d THEN d[k] ELSE 0
dict_inc(d, k) == (k :> (dict_get(d, k) + 1)) @@ d

\* data["veh_state"][veh_id], created on first reference
veh_of(vstates, veh_id) ==
    IF veh_id \in DOMAIN vstates THEN vstates[veh_id] ELSE _new_veh_state

(***************************************************************************)
(* reroutings.py: tick_update_vehicle                                      *)
(***************************************************************************)
\* the guard of "1) Handle search start from s"
starts_search(vs, now_s, now_b) ==
    (~vs.search_active) /\ now_s # EmptyStr /\ now_b = NULL

\* the body of "1) Handle search start from s"
start_search(vs, now_s, now_time) ==
    [vs EXCEPT !.search_active = TRUE,
               !.search_start_t = Some(now_time),
               !.search_target_station = now_s,
               !.search_target_group = get_group_id(now_s),
               !.current_group = get_group_id(now_s)]

\* the guard of "2) While searching, handle target updates"
updates_target(vs, now_s, now_b) ==
    vs.search_active /\ now_s # EmptyStr /\ now_b = NULL

\* update_target with the search timer restarted by a within-group change
update_target_resets_timer(vs, now_s, now_time) ==
    LET new_group == get_group_id(now_s)
        old_group == vs.search_target_group
    IN  IF new_group = old_group
        THEN [vs EXCEPT !.search_target_station = now_s,
                        !.search_start_t = Some(now_time),
                        !.current_group = new_group]
        ELSE [vs EXCEPT
                 !.pending_reroute =
                     IF vs.pending_reroute = None
                     THEN Some([origin_group |-> old_group,
                                origin_station |-> vs.search_target_station,
                                start_t |-> now_time])
                     ELSE @,
                 !.search_target_station = now_s,
                 !.search_target_group = new_group,
                 !.current_group = new_group]

\* update_target with the pending reroute timed from the start of the run
update_target_from_run_start(vs, now_s, now_time) ==
    LET new_group == get_group_id(now_s)
        old_group == vs.search_target_group
    IN  IF new_group = old_group
        THEN [vs EXCEPT !.search_target_station = now_s,
                        !.current_group = new_group]
        ELSE [vs EXCEPT
                 !.pending_reroute =
                     IF vs.pending_reroute = None
                     THEN Some([origin_group |-> old_group,
                                origin_station |-> vs.search_target_station,
                                start_t |-> 0])
                     ELSE @,
                 !.search_target_station = now_s,
                 !.search_target_group = new_group,
                 !.current_group = new_group]

\* update_target with the pending reroute anchored at the new station
update_target_anchors_new(vs, now_s, now_time) ==
    LET new_group == get_group_id(now_s)
        old_group == vs.search_target_group
    IN  IF new_group = old_group
        THEN [vs EXCEPT !.search_target_station = now_s,
                        !.current_group = new_group]
        ELSE [vs EXCEPT
                 !.pending_reroute =
                     IF vs.pending_reroute = None
                     THEN Some([origin_group |-> old_group,
                                origin_station |-> now_s,
                                start_t |-> now_time])
                     ELSE @,
                 !.search_target_station = now_s,
                 !.search_target_group = new_group,
                 !.current_group = new_group]

\* update_target with the pending reroute re-opened by every group change
update_target_reanchors(vs, now_s, now_time) ==
    LET new_group == get_group_id(now_s)
        old_group == vs.search_target_group
    IN  IF new_group = old_group
        THEN [vs EXCEPT !.search_target_station = now_s,
                        !.current_group = new_group]
        ELSE [vs EXCEPT
                 !.pending_reroute =
                     Some([origin_group |-> old_group,
                           origin_station |-> vs.search_target_station,
                           start_t |-> now_time]),
                 !.search_target_station = now_s,
                 !.search_target_group = new_group,
                 !.current_group = new_group]

\* update_target comparing the stations instead of their groups
update_target_by_station(vs, now_s, now_time) ==
    LET new_group == get_group_id(now_s)
        old_group == vs.search_target_group
    IN  IF now_s = vs.search_target_station
        THEN [vs EXCEPT !.search_target_station = now_s,
                        !.current_group = new_group]
        ELSE [vs EXCEPT
                 !.pending_reroute =
                     IF vs.pending_reroute = None
                     THEN Some([origin_group |-> old_group,
                                origin_station |-> vs.search_target_station,
                                start_t |-> now_time])
                     ELSE @,
                 !.search_target_station = now_s,
                 !.search_target_group = new_group,
                 !.current_group = new_group]

\* the body of "2) While searching, handle target updates"
update_target(vs, now_s, now_time) ==
    LET new_group == get_group_id(now_s)
        old_group == vs.search_target_group
    IN  IF new_group = old_group
        THEN [vs EXCEPT !.search_target_station = now_s,
                        !.current_group = new_group]
        ELSE [vs EXCEPT
                 !.pending_reroute =
                     IF vs.pending_reroute = None
                     THEN Some([origin_group |-> old_group,
                                origin_station |-> vs.search_target_station,
                                start_t |-> now_time])
                     ELSE @,
                 !.search_target_station = now_s,
                 !.search_target_group = new_group,
                 !.current_group = new_group]

\* the vehicle's state after one call of tick_update_vehicle
tick_veh_state(vs, now_s, now_b, now_time) ==
    LET vs1 == IF starts_search(vs, now_s, now_b)
               THEN start_search(vs, now_s, now_time) ELSE vs
        vs2 == IF updates_target(vs1, now_s, now_b)
               THEN update_target(vs1, now_s, now_time) ELSE vs1
    IN  [vs2 EXCEPT !.prev_s = now_s, !.prev_b = now_b]

\* data["_group_session_starts"] after one call of tick_update_vehicle
tick_session_starts(starts, vs, now_s, now_b) ==
    LET og == get_group_id(now_s)
    IN  IF starts_search(vs, now_s, now_b) /\ og # ""
        THEN dict_inc(starts, og) ELSE starts

(***************************************************************************)
(* reroutings.py: handle_arrival                                           *)
(***************************************************************************)
\* close_search without the session count
close_search_uncounted(ps, vs, dest_station, now_time) ==
    IF vs.search_active /\ vs.search_start_t # None
    THEN LET st == now_time - vs.search_start_t[1]
         IN  [_ensure_station(ps, dest_station) EXCEPT
                 ![dest_station].search_times = Append(@, st)]
    ELSE ps

\* "1) Close search (if active) and write metrics to DESTINATION station"
close_search(ps, vs, dest_station, now_time) ==
    IF vs.search_active /\ vs.search_start_t # None
    THEN LET st == now_time - vs.search_start_t[1]
         IN  [_ensure_station(ps, dest_station) EXCEPT
                 ![dest_station].sessions = @ + 1,
                 ![dest_station].search_times = Append(@, st)]
    ELSE ps

\* returned_to_origin with the comparison inverted
returned_to_origin_inverted(dest_group, origin_group) ==
    dest_group # origin_group

\* "If destination group == origin group (returned to origin), discard"
returned_to_origin(dest_group, origin_group) == dest_group = origin_group

\* record_out that writes only at a station that already has a record
record_out_at_known(ps, origin_station, dur) ==
    IF origin_station # EmptyStr /\ origin_station \in DOMAIN ps
    THEN [ps EXCEPT
             ![origin_station].reroute_out_times = Append(@, dur),
             ![origin_station].reroute_out_count = @ + 1,
             ![origin_station].sessions_with_out = @ + 1]
    ELSE ps

\* the OUT record at the origin station
record_out(ps, origin_station, dur) ==
    IF origin_station # EmptyStr
    THEN [_ensure_station(ps, origin_station) EXCEPT
             ![origin_station].reroute_out_times = Append(@, dur),
             ![origin_station].reroute_out_count = @ + 1,
             ![origin_station].sessions_with_out = @ + 1]
    ELSE ps

\* record_in that also writes at every station that already has a record
record_in_every_station(ps, dest_station, dur) ==
    [c \in DOMAIN _ensure_station(ps, dest_station) |->
        [_ensure_station(ps, dest_station)[c] EXCEPT
            !.reroute_in_times = Append(@, dur),
            !.reroute_in_count = @ + 1,
            !.sessions_with_in = @ + 1]]

\* record_in that leaves reroute_in_count as it was
record_in_uncounted(ps, dest_station, dur) ==
    [_ensure_station(ps, dest_station) EXCEPT
        ![dest_station].reroute_in_times = Append(@, dur),
        ![dest_station].sessions_with_in = @ + 1]

\* the IN record at the destination station
record_in(ps, dest_station, dur) ==
    [_ensure_station(ps, dest_station) EXCEPT
        ![dest_station].reroute_in_times = Append(@, dur),
        ![dest_station].reroute_in_count = @ + 1,
        ![dest_station].sessions_with_in = @ + 1]

\* "2) If there was a pending inter-group reroute, finalize IN/OUT": stations
finalize_reroute(ps, vs, dest_station, now_time) ==
    IF vs.pending_reroute # None
    THEN LET pr == vs.pending_reroute[1]
             dur == now_time - pr.start_t
         IN  IF returned_to_origin(get_group_id(dest_station), pr.origin_group)
             THEN ps
             ELSE record_in(record_out(ps, pr.origin_station, dur),
                            dest_station, dur)
    ELSE ps

\* "2) ...": data["_group_sessions_with_out"]
finalize_with_out(outs, vs, dest_station) ==
    IF vs.pending_reroute # None
    THEN LET pr == vs.pending_reroute[1]
         IN  IF returned_to_origin(get_group_id(dest_station), pr.origin_group)
             THEN outs
             ELSE IF pr.origin_group # "" THEN dict_inc(outs, pr.origin_group)
                  ELSE outs
    ELSE outs

\* reset_session that leaves a pending reroute open
reset_session_keeps_pending(vs) ==
    [vs EXCEPT !.search_active = FALSE,
               !.search_start_t = None,
               !.search_target_station = EmptyStr,
               !.search_target_group = "",
               !.current_group = ""]

\* reset_session that leaves the target in place
reset_session_keeps_target(vs) ==
    [vs EXCEPT !.pending_reroute = None,
               !.search_active = FALSE,
               !.search_start_t = None,
               !.current_group = ""]

\* "3) Reset per-session state for this vehicle" (pending_reroute was cleared
\* in step 2 on both branches)
reset_session(vs) ==
    [vs EXCEPT !.pending_reroute = None,
               !.search_active = FALSE,
               !.search_start_t = None,
               !.search_target_station = EmptyStr,
               !.search_target_group = "",
               !.current_group = ""]

\* the early return of handle_arrival
no_station(cs_id) == cs_id = EmptyStr \/ cs_id = NULL

(***************************************************************************)
(* reroutings.py: finalize_json                                            *)
(*                                                                         *)
(* A float of the report is an exact fraction <<n, d>> until the final     *)
(* rounding, which turns it into a whole number of hundredths.  Durations  *)
(* are whole seconds, so the duration lists are not changed by rounding.   *)
(***************************************************************************)
\* the order in which the stations of data["per_station"] are visited; the
\* report's statistics do not depend on it
StationOrder == <<csA0, csA1, csB0, csBad>>

\* sorted(values)
RECURSIVE insert_sorted(_, _)
insert_sorted(x, arr) ==
    IF arr = <<>> THEN <<x>>
    ELSE IF x <= Head(arr) THEN <<x>> \o arr
    ELSE <<Head(arr)>> \o insert_sorted(x, Tail(arr))

RECURSIVE sorted(_)
sorted(values) ==
    IF values = <<>> THEN <<>>
    ELSE insert_sorted(Head(values), sorted(Tail(values)))

\* _percentile: k = (p/100) * (len - 1), interpolating between arr[floor(k)]
\* and arr[ceil(k)] (0-based)
_percentile(values, p) ==
    IF values = <<>> THEN None
    ELSE LET arr == sorted(values)
             n == Len(arr)
             f == (p * (n - 1)) \div 100
             part == (p * (n - 1)) % 100
         IN  IF n = 1 THEN Some(Frac(arr[1], 1))
             ELSE IF part = 0 THEN Some(Frac(arr[f + 1], 1))
             ELSE Some(Frac(100 * arr[f + 1] + (arr[f + 2] - arr[f + 1]) * part,
                            100))

\* float(sum(values) / len(values)) if values else None
average(values) ==
    IF values = <<>> THEN None ELSE Some(Frac(SeqSum(values), Len(values)))

\* a / b if b else None
ratio(a, b) == IF b = 0 THEN None ELSE Some(Frac(a, b))

\* round(x, 2) of a float, None left alone: hundredths, a tie going to the
\* even neighbour
round2(x) ==
    IF x = None THEN None
    ELSE LET q == (100 * x[1][1]) \div x[1][2]
             r == (100 * x[1][1]) % x[1][2]
         IN  Some(IF 2 * r < x[1][2] THEN q
                  ELSE IF 2 * r > x[1][2] THEN q + 1
                  ELSE IF q % 2 = 0 THEN q ELSE q + 1)

\* the stations of per_station, in visiting order: those of one group, or
\* all of them when group is ""
RECURSIVE stations_from(_, _, _)
stations_from(ps, i, group) ==
    IF i > Len(StationOrder) THEN <<>>
    ELSE (IF StationOrder[i] \in DOMAIN ps
             /\ (group = "" \/ get_group_id(StationOrder[i]) = group)
          THEN <<StationOrder[i]>> ELSE <<>>)
         \o stations_from(ps, i + 1, group)

\* list.extend over the given stations of one of the duration lists
RECURSIVE extend_all(_, _, _)
extend_all(ps, stations, field) ==
    IF stations = <<>> THEN <<>>
    ELSE ps[Head(stations)][field] \o extend_all(ps, Tail(stations), field)

\* += over the given stations of one of the counters
RECURSIVE sum_all(_, _, _)
sum_all(ps, stations, field) ==
    IF stations = <<>> THEN 0
    ELSE ps[Head(stations)][field] + sum_all(ps, Tail(stations), field)

\* sum(d.values())
RECURSIVE dict_sum(_)
dict_sum(d) ==
    IF DOMAIN d = {} THEN 0
    ELSE LET k == CHOOSE x \in DOMAIN d : TRUE
         IN  d[k] + dict_sum([x \in DOMAIN d \ {k} |-> d[x]])

\* "Per-station aggregates", with the internal counters stripped
station_report(sd) ==
    [sessions |-> sd.sessions,
     search_times |-> sd.search_times,
     avg_search_time |-> round2(average(sd.search_times)),
     p95_search_time |-> round2(_percentile(sd.search_times, 95)),
     reroute_in_times |-> sd.reroute_in_times,
     reroute_in_count |-> Len(sd.reroute_in_times),
     reroute_out_times |-> sd.reroute_out_times,
     reroute_out_count |-> Len(sd.reroute_out_times),
     avg_reroute_in_time |-> round2(average(sd.reroute_in_times)),
     p95_reroute_in_time |-> round2(_percentile(sd.reroute_in_times, 95)),
     avg_reroute_out_time |-> round2(average(sd.reroute_out_times)),
     p95_reroute_out_time |-> round2(_percentile(sd.reroute_out_times, 95))]

\* the sum of the station averages of a duration list and the number of
\* stations that have one
RECURSIVE sum_of_averages(_, _, _)
sum_of_averages(ps, stations, field) ==
    IF stations = <<>> THEN <<(<<0, 1>>), 0>>
    ELSE LET rest == sum_of_averages(ps, Tail(stations), field)
             avg == average(ps[Head(stations)][field])
         IN  IF avg = None THEN rest
             ELSE <<FracAdd(avg[1], rest[1]), rest[2] + 1>>

average_of_averages(ps, stations, field) ==
    LET sa == sum_of_averages(ps, stations, field)
    IN  IF sa[2] = 0 THEN None ELSE Some(Frac(sa[1][1], sa[1][2] * sa[2]))

\* group_report with the station averages averaged
group_report_of_station_averages(ps, starts, outs, g) ==
    LET stations == stations_from(ps, 1, g)
        sessions == sum_all(ps, stations, "sessions")
        search_times_all == extend_all(ps, stations, "search_times")
        reroute_in_times_all == extend_all(ps, stations, "reroute_in_times")
        reroute_out_times_all == extend_all(ps, stations, "reroute_out_times")
        sessions_with_in_total == sum_all(ps, stations, "sessions_with_in")
    IN  [sessions |-> sessions,
         avg_search_time |->
             round2(average_of_averages(ps, stations, "search_times")),
         p95_search_time |-> round2(_percentile(search_times_all, 95)),
         avg_reroute_in_time |->
             round2(average_of_averages(ps, stations, "reroute_in_times")),
         p95_reroute_in_time |-> round2(_percentile(reroute_in_times_all, 95)),
         avg_reroute_out_time |->
             round2(average_of_averages(ps, stations, "reroute_out_times")),
         p95_reroute_out_time |-> round2(_percentile(reroute_out_times_all, 95)),
         reroute_in_count_total |-> Len(reroute_in_times_all),
         reroute_out_count_total |-> Len(reroute_out_times_all),
         percent_reroute_in_sessions |->
             round2(ratio(sessions_with_in_total, sessions)),
         percent_reroute_out_sessions |->
             round2(ratio(dict_get(outs, g), dict_get(starts, g)))]

\* group_report with the arriving sessions as the denominator of both ratios
group_report_one_denominator(ps, starts, outs, g) ==
    LET stations == stations_from(ps, 1, g)
        sessions == sum_all(ps, stations, "sessions")
        search_times_all == extend_all(ps, stations, "search_times")
        reroute_in_times_all == extend_all(ps, stations, "reroute_in_times")
        reroute_out_times_all == extend_all(ps, stations, "reroute_out_times")
        sessions_with_in_total == sum_all(ps, stations, "sessions_with_in")
    IN  [sessions |-> sessions,
         avg_search_time |-> round2(average(search_times_all)),
         p95_search_time |-> round2(_percentile(search_times_all, 95)),
         avg_reroute_in_time |-> round2(average(reroute_in_times_all)),
         p95_reroute_in_time |-> round2(_percentile(reroute_in_times_all, 95)),
         avg_reroute_out_time |-> round2(average(reroute_out_times_all)),
         p95_reroute_out_time |-> round2(_percentile(reroute_out_times_all, 95)),
         reroute_in_count_total |-> Len(reroute_in_times_all),
         reroute_out_count_total |-> Len(reroute_out_times_all),
         percent_reroute_in_sessions |->
             round2(ratio(sessions_with_in_total, sessions)),
         percent_reroute_out_sessions |->
             round2(ratio(dict_get(outs, g), sessions))]

\* "Per-group by concatenation": the entry of one group
group_report(ps, starts, outs, g) ==
    LET stations == stations_from(ps, 1, g)
        sessions == sum_all(ps, stations, "sessions")
        search_times_all == extend_all(ps, stations, "search_times")
        reroute_in_times_all == extend_all(ps, stations, "reroute_in_times")
        reroute_out_times_all == extend_all(ps, stations, "reroute_out_times")
        sessions_with_in_total == sum_all(ps, stations, "sessions_with_in")
    IN  [sessions |-> sessions,
         avg_search_time |-> round2(average(search_times_all)),
         p95_search_time |-> round2(_percentile(search_times_all, 95)),
         avg_reroute_in_time |-> round2(average(reroute_in_times_all)),
         p95_reroute_in_time |-> round2(_percentile(reroute_in_times_all, 95)),
         avg_reroute_out_time |-> round2(average(reroute_out_times_all)),
         p95_reroute_out_time |-> round2(_percentile(reroute_out_times_all, 95)),
         reroute_in_count_total |-> Len(reroute_in_times_all),
         reroute_out_count_total |-> Len(reroute_out_times_all),
         percent_reroute_in_sessions |->
             round2(ratio(sessions_with_in_total, sessions)),
         percent_reroute_out_sessions |->
             round2(ratio(dict_get(outs, g), dict_get(starts, g)))]

\* "Totals (concatenate across all stations)"
totals_report(ps, starts, outs) ==
    LET stations == stations_from(ps, 1, "")
        all_search_times == extend_all(ps, stations, "search_times")
        all_rin_times == extend_all(ps, stations, "reroute_in_times")
        all_rout_times == extend_all(ps, stations, "reroute_out_times")
        sessions_total == sum_all(ps, stations, "sessions")
        sessions_with_in_total == sum_all(ps, stations, "sessions_with_in")
    IN  [avg_search_time |-> round2(average(all_search_times)),
         p95_search_time |-> round2(_percentile(all_search_times, 95)),
         avg_reroute_in_time |-> round2(average(all_rin_times)),
         p95_reroute_in_time |-> round2(_percentile(all_rin_times, 95)),
         avg_reroute_out_time |-> round2(average(all_rout_times)),
         p95_reroute_out_time |-> round2(_percentile(all_rout_times, 95)),
         reroute_in_count_total |-> Len(all_rin_times),
         reroute_out_count_total |-> Len(all_rout_times),
         percent_reroute_in_sessions_total |->
             round2(ratio(sessions_with_in_total, sessions_total)),
         percent_reroute_out_sessions_total |->
             round2(ratio(dict_sum(outs), dict_sum(starts)))]

\* finalize_json: the report built from the tracker's data; a station whose
\* id yields no group is left out of per_group
finalize_json(ps, starts, outs) ==
    [per_station |-> [c \in DOMAIN ps |-> station_report(ps[c])],
     per_group |-> [g \in {get_group_id(c) : c \in DOMAIN ps} \ {""} |->
                       group_report(ps, starts, outs, g)],
     totals |-> totals_report(ps, starts, outs)]

(***************************************************************************)
(* The two decompositions of a charging-point id: get_group_id of          *)
(* reroutings.py (the tracker's) and _extract_edge_and_index of            *)
(* charging_metrics.py (the aggregator's), called on their own.  A result  *)
(* says whether the call raised and, if not, the group as the sequence of  *)
(* its "_"-separated parts and the index.                                  *)
(***************************************************************************)
MaxIdParts == 4
IdParts == {"cs", "e1", "0"}
Ids == UNION {[1..n -> IdParts] : n \in 1..MaxIdParts}

Raised == [raised |-> TRUE, group |-> <<>>, index |-> ""]
Returned(group, index) == [raised |-> FALSE, group |-> group, index |-> index]

\* station_id.startswith("cs_")
startswith_cs(station_id) == Len(station_id) >= 2 /\ station_id[1] = "cs"

\* _extract_edge_and_index: ("_".join(parts[:-1]), parts[-1]) or ValueError
_extract_edge_and_index(station_id) ==
    IF ~startswith_cs(station_id) THEN Raised
    ELSE LET parts == Tail(station_id)
         IN  IF Len(parts) < 2 THEN Raised
             ELSE Returned(SubSeq(parts, 1, Len(parts) - 1), parts[Len(parts)])

\* get_group_id called on its own: it returns a string on every input
call_get_group_id(cs_id) == Returned(<<get_group_id(cs_id)>>, "")

\* both decompositions applied to each id of a pair
DecomposeIds ==
    /\ calc.fn = "ids"
    /\ calc.out = None
    /\ calc' = [calc EXCEPT
                   !.out = Some([i \in 1..2 |->
                               [tracker |-> call_get_group_id(calc.arg[i]),
                                aggregator |->
                                    _extract_edge_and_index(calc.arg[i])]])]
    /\ UNCHANGED report
    /\ UNCHANGED trackerVars
    /\ UNCHANGED powerVars

(***************************************************************************)
(* charging_metrics.py: _percentile_nearest_rank, called on its own.  The  *)
(* percentile p is a whole number, for which ceil((p / 100.0) * n) is the  *)
(* exact ceiling at the list lengths used here.                            *)
(***************************************************************************)
MaxValues == 3
Samples == {1, 2, 5}
OneToTen == [i \in 1..10 |-> i]
TenToOne == [i \in 1..10 |-> 11 - i]
SampleLists ==
    UNION {[1..n -> Samples] : n \in 0..MaxValues} \cup {OneToTen, TenToOne}
Percentiles == {0 - 10, 0, 1, 5, 25, 50, 75, 95, 99, 100, 150}

\* min(values) and max(values)
min_of(values) ==
    CHOOSE x \in {values[i] : i \in 1..Len(values)} :
        \A i \in 1..Len(values) : x <= values[i]
max_of(values) ==
    CHOOSE x \in {values[i] : i \in 1..Len(values)} :
        \A i \in 1..Len(values) : x >= values[i]

\* _percentile_nearest_rank with the rank rounded down
_percentile_floor_rank(values, p) ==
    IF values = <<>> THEN 0
    ELSE IF p <= 0 THEN min_of(values)
    ELSE IF p >= 100 THEN max_of(values)
    ELSE LET arr == sorted(values)
             rank == (p * Len(arr)) \div 100
             idx == (IF rank < 1 THEN 1 ELSE rank) - 1
         IN  arr[idx + 1]

\* _percentile_nearest_rank: rank = ceil(p / 100 * n), idx = max(1, rank) - 1
_percentile_nearest_rank(values, p) ==
    IF values = <<>> THEN 0
    ELSE IF p <= 0 THEN min_of(values)
    ELSE IF p >= 100 THEN max_of(values)
    ELSE LET arr == sorted(values)
             rank == (p * Len(arr) + 99) \div 100
             idx == (IF rank < 1 THEN 1 ELSE rank) - 1
         IN  arr[idx + 1]

PercentileNearestRank ==
    /\ calc.fn = "percentile"
    /\ calc.out = None
    /\ calc' = [calc EXCEPT
                   !.out = Some(_percentile_nearest_rank(calc.arg[1],
                                                         calc.arg[2]))]
    /\ UNCHANGED report
    /\ UNCHANGED trackerVars
    /\ UNCHANGED powerVars

(***************************************************************************)
(* charging_metrics.py: the queue zone of a station and                    *)
(* _find_queue_entry_time.  A lane name is the sequence of the pieces its  *)
(* f-string is built from, a sample is (time, lane), and the samples of a  *)
(* vehicle are in time order, one per time step at most.                   *)
(***************************************************************************)
MaxSampleTime == 4

to_cs(edge_id) == <<"to_cs", edge_id, "0">>
cs_lanes(edge_id, idx) == <<"cs_lanes", edge_id, idx>>
Road == <<"road">>

\* str(k) for k in range(n_cs)
IndexStr == <<"0", "1">>

\* {to_cs_<edge>_0} | {cs_lanes_<edge>_k for k in range(n_cs)}
queue_lanes(edge_id, n_cs) ==
    {to_cs(edge_id)} \cup {cs_lanes(edge_id, IndexStr[k + 1]) : k \in 0..(n_cs - 1)}

\* the binary search: the last index (from 0) whose time is <= t_end, or -1
RECURSIVE last_at_or_before(_, _, _, _, _)
last_at_or_before(samples, t_end, lo, hi, last_idx) ==
    IF lo > hi THEN last_idx
    ELSE LET mid == (lo + hi) \div 2
         IN  IF samples[mid + 1][1] <= t_end
             THEN last_at_or_before(samples, t_end, mid + 1, hi, mid)
             ELSE last_at_or_before(samples, t_end, lo, mid - 1, last_idx)

\* the loop of the branch where the sample at last_idx is in the zone
RECURSIVE walk_back(_, _, _)
walk_back(samples, zone, i) ==
    IF i - 1 >= 0 /\ samples[i][2] \in zone
    THEN walk_back(samples, zone, i - 1)
    ELSE samples[i + 1][1]

\* the loop of the branch where the sample at last_idx is out of the zone
RECURSIVE scan_back(_, _, _)
scan_back(samples, zone, i) ==
    IF i - 1 >= 0
    THEN IF samples[i + 1][2] \in zone /\ samples[i][2] \notin zone
         THEN Some(samples[i + 1][1])
         ELSE scan_back(samples, zone, i - 1)
    ELSE None

\* _find_queue_entry_time returning t_end where the code returns None for
\* want of a sample at or before t_end
_find_queue_entry_time_or_deadline(samples, zone, t_end) ==
    IF samples = <<>> THEN Some(t_end)
    ELSE LET last_idx == last_at_or_before(samples, t_end, 0,
                                           Len(samples) - 1, -1)
         IN  IF last_idx = -1 THEN Some(t_end)
             ELSE IF samples[last_idx + 1][2] \in zone
             THEN Some(walk_back(samples, zone, last_idx))
             ELSE scan_back(samples, zone, last_idx)

\* _find_queue_entry_time(samples, in_zone, t_end), in_zone being
\* membership in zone
_find_queue_entry_time(samples, zone, t_end) ==
    IF samples = <<>> THEN None
    ELSE LET last_idx == last_at_or_before(samples, t_end, 0,
                                           Len(samples) - 1, -1)
         IN  IF last_idx = -1 THEN None
             ELSE IF samples[last_idx + 1][2] \in zone
             THEN Some(walk_back(samples, zone, last_idx))
             ELSE scan_back(samples, zone, last_idx)

\* the lanes a sample of the trace may name
TraceLanes == {Road, to_cs(<<"e1">>), cs_lanes(<<"e1">>, "0")}

\* the samples of a vehicle that a trace gives: at each time step the
\* vehicle is absent or on one lane
RECURSIVE series_of(_, _)
series_of(at, t) ==
    IF t > MaxSampleTime THEN <<>>
    ELSE (IF at[t] = None THEN <<>> ELSE <<(<<t, at[t][1]>>)>>)
         \o series_of(at, t + 1)

SampleSeries ==
    {series_of(at, 0) :
        at \in [0..MaxSampleTime -> {None} \cup {Some(l) : l \in TraceLanes}]}

FindQueueEntryTime ==
    /\ calc.fn = "entry"
    /\ calc.out = None
    /\ calc' = [calc EXCEPT
                   !.out = Some(_find_queue_entry_time(calc.arg.samples,
                                    calc.arg.zone, calc.arg.t_end))]
    /\ UNCHANGED report
    /\ UNCHANGED trackerVars
    /\ UNCHANGED powerVars

(***************************************************************************)
(* charging_metrics.py: _compute_session_waits_and_queues.  The trace      *)
(* gives, for every vehicle and time step, nothing or (lane, speed); an    *)
(* event is (station_id, veh, t_begin, t_end).  calc.out holds the place   *)
(* of the loop over the events, the two dictionaries it fills and the      *)
(* exception that left it, if any.                                         *)
(***************************************************************************)
MaxFcdTime == 2
MaxEvents == Len(VehOrder)
FcdTimes == 0..MaxFcdTime
ValueError == "ValueError"

\* effective_cs_count_by_edge, from the stations file
effective_cs_count_by_edge == (<<"e1">> :> 2)

\* vehicles = set(ev[1] for ev in events)
vehicles_of(events) == {events[i][2] : i \in 1..Len(events)}

\* series[vid]: the (time, lane) samples of a vehicle of the filter
RECURSIVE series(_, _, _)
series(fcd, vid, t) ==
    IF t > MaxFcdTime THEN <<>>
    ELSE (IF fcd[vid][t] = None THEN <<>> ELSE <<(<<t, fcd[vid][t][1][1]>>)>>)
         \o series(fcd, vid, t + 1)

\* series.get(veh, [])
series_get(fcd, filter, veh) ==
    IF veh \in filter THEN series(fcd, veh, 0) ELSE <<>>

stopped_on(fcd, among, lane, t) ==
    {v \in among : fcd[v][t] # None /\ fcd[v][t][1] = <<lane, 0>>}

\* lane_zero_counts counting every vehicle of the trace
lane_zero_counts_of_all(fcd, filter) ==
    LET lanes == {lane \in TraceLanes :
                     \E t \in FcdTimes : stopped_on(fcd, DOMAIN fcd, lane, t) # {}}
    IN  [lane \in lanes |->
            [t \in {tt \in FcdTimes : stopped_on(fcd, DOMAIN fcd, lane, tt) # {}} |->
                Cardinality(stopped_on(fcd, DOMAIN fcd, lane, t))]]

\* lane_zero_counts: lane -> {time -> number of vehicles of the filter
\* with speed 0.0}, a key existing once a vehicle was counted for it
lane_zero_counts(fcd, filter) ==
    LET lanes == {lane \in TraceLanes :
                     \E t \in FcdTimes : stopped_on(fcd, filter, lane, t) # {}}
    IN  [lane \in lanes |->
            [t \in {tt \in FcdTimes : stopped_on(fcd, filter, lane, tt) # {}} |->
                Cardinality(stopped_on(fcd, filter, lane, t))]]

\* the scan of lane_counts.items(): the largest count in [t_begin, t_end]
RECURSIVE scan_counts(_, _, _, _, _)
scan_counts(lane_counts, keys, t_begin, t_end, qmax) ==
    IF keys = {} THEN qmax
    ELSE LET tt == CHOOSE k \in keys : TRUE
             cnt == lane_counts[tt]
         IN  scan_counts(lane_counts, keys \ {tt}, t_begin, t_end,
                         IF t_begin <= tt /\ tt <= t_end /\ cnt > qmax
                         THEN cnt ELSE qmax)

\* the queue length of one session: the station lane only
queue_of(counts, station_lane, t_begin, t_end) ==
    IF station_lane \in DOMAIN counts
    THEN scan_counts(counts[station_lane], DOMAIN counts[station_lane],
                     t_begin, t_end, 0)
    ELSE 0

\* d.setdefault(k, []).append(x)
list_append(d, k, x) ==
    (k :> Append(IF k \in DOMAIN d THEN d[k] ELSE <<>>, x)) @@ d

\* the body of the loop for one event
session_step(st, events, fcd) ==
    LET ev == events[st.next]
        station_id == ev[1]
        veh == ev[2]
        t_begin == ev[3]
        t_end == ev[4]
        decomposed == _extract_edge_and_index(station_id)
        edge_id == decomposed.group
        n_cs == IF edge_id \in DOMAIN effective_cs_count_by_edge
                THEN (IF effective_cs_count_by_edge[edge_id] < 1 THEN 1
                      ELSE effective_cs_count_by_edge[edge_id])
                ELSE 1
        samples == series_get(fcd, vehicles_of(events), veh)
        t_enter == _find_queue_entry_time(samples, queue_lanes(edge_id, n_cs),
                                          t_begin)
        wait == IF t_begin - t_enter[1] < 0 THEN 0 ELSE t_begin - t_enter[1]
        counts == lane_zero_counts(fcd, vehicles_of(events))
        qmax == queue_of(counts, cs_lanes(edge_id, decomposed.index),
                         t_begin, t_end)
    IN  IF decomposed.raised
        THEN [st EXCEPT !.raised = Some(ValueError)]
        ELSE [st EXCEPT
                 !.next = @ + 1,
                 !.waits = IF t_enter # None
                           THEN list_append(@, station_id, wait) ELSE @,
                 !.queues = list_append(@, station_id, qmax)]

\* one iteration of the loop over the events, no exception having left it
ComputeSessionWaitsAndQueues ==
    /\ calc.fn = "sessions"
    /\ calc.out.raised = None
    /\ calc.out.next <= Len(calc.arg.events)
    /\ calc' = [calc EXCEPT
                   !.out = session_step(calc.out, calc.arg.events, calc.arg.fcd)]
    /\ UNCHANGED report
    /\ UNCHANGED trackerVars
    /\ UNCHANGED powerVars

\* the events and traces the sessions are computed over: the i-th event is
\* of the i-th vehicle; the second vehicle is seen on one station lane only
EventStations == {csA0, csA1, csBad}
EventSpans == {<<b, e>> : b \in 1..MaxFcdTime, e \in 1..MaxFcdTime} \cap
              {<<b, e>> \in Nat \X Nat : b <= e}
EventLists ==
    UNION {[1..n -> EventStations \X EventSpans] : n \in 1..MaxEvents}
events_of(choice) ==
    [i \in 1..Len(choice) |->
        <<choice[i][1], VehOrder[i], choice[i][2][1], choice[i][2][2]>>]

TraceSamplesOf(v, t) ==
    IF v = VehOrder[1]
    THEN {None, Some(<<Road, 1>>), Some(<<to_cs(<<"e1">>), 0>>),
          Some(<<cs_lanes(<<"e1">>, "0"), 0>>)}
    ELSE IF t = 0 THEN {None}
    ELSE {None, Some(<<cs_lanes(<<"e1">>, "0"), 0>>),
          Some(<<cs_lanes(<<"e1">>, "0"), 1>>)}

Traces ==
    {fcd \in [Vehicles -> [FcdTimes -> {None} \cup
                 {Some(<<l, sp>>) : l \in TraceLanes, sp \in 0..1}]] :
        \A v \in Vehicles : \A t \in FcdTimes : fcd[v][t] \in TraceSamplesOf(v, t)}

NoSessions == [next |-> 1, waits |-> <<>>, queues |-> <<>>, raised |-> None]

(***************************************************************************)
(* charging_metrics.py: the session wait-time statistics of                *)
(* _compute_group_and_totals.  station_metrics holds the stations that     *)
(* appear in the charging events, each with its session_wait_times; an     *)
(* average is an exact fraction.                                           *)
(***************************************************************************)
MaxWaits == 2
WaitValues == {0, 4}
WaitLists == UNION {[1..n -> WaitValues] : n \in 0..MaxWaits}
MetricStations == {csA0, csA1, csB0}

\* sum(acc[field]) over the stations of a set, as a fraction
RECURSIVE sum_over(_, _, _)
sum_over(stats, stations, field) ==
    IF stations = {} THEN <<0, 1>>
    ELSE LET c == CHOOSE x \in stations : TRUE
         IN  FracAdd(stats[c][field],
                     sum_over(stats, stations \ {c}, field))

divided_by(x, n) == Frac(x[1], x[2] * n)

\* "per-station derived metrics": 0.0 for a station without waits
station_wait_stats(waits) ==
    [avg_session_wait_time |->
         IF waits = <<>> THEN <<0, 1>> ELSE Frac(SeqSum(waits), Len(waits)),
     p95_session_wait_time |->
         IF waits = <<>> THEN <<0, 1>>
         ELSE <<_percentile_nearest_rank(waits, 95), 1>>]

\* the group entry: sum(acc["waits_avg"]) / n and sum(acc["waits_p95"]) / n
group_wait_stats(stats, edge_id) ==
    LET acc == {c \in DOMAIN stats : _extract_edge_and_index(c).group = edge_id}
        used == Cardinality(acc)
        n == IF used > 0 THEN used ELSE 1
    IN  [avg_session_wait_time |->
             divided_by(sum_over(stats, acc, "avg_session_wait_time"), n),
         p95_session_wait_time |->
             divided_by(sum_over(stats, acc, "p95_session_wait_time"), n),
         number_of_stations_used |-> used]

\* the totals: the same sums over every station of station_metrics
total_wait_stats(stats) ==
    LET num_stations_used == Cardinality(DOMAIN stats)
    IN  [avg_session_wait_time |->
             IF num_stations_used = 0 THEN <<0, 1>>
             ELSE divided_by(sum_over(stats, DOMAIN stats,
                                      "avg_session_wait_time"),
                             num_stations_used),
         p95_session_wait_time |->
             IF num_stations_used = 0 THEN <<0, 1>>
             ELSE divided_by(sum_over(stats, DOMAIN stats,
                                      "p95_session_wait_time"),
                             num_stations_used),
         number_of_stations_used |-> num_stations_used]

_compute_group_and_totals(station_metrics) ==
    LET stats == [c \in DOMAIN station_metrics |->
                     station_wait_stats(station_metrics[c])]
        edges == {_extract_edge_and_index(c).group : c \in DOMAIN stats}
    IN  [per_station |-> stats,
         per_group |-> [e \in edges |-> group_wait_stats(stats, e)],
         totals |-> total_wait_stats(stats)]

ComputeGroupAndTotals ==
    /\ calc.fn = "waits"
    /\ calc.out = None
    /\ calc' = [calc EXCEPT !.out = Some(_compute_group_and_totals(calc.arg))]
    /\ UNCHANGED report
    /\ UNCHANGED trackerVars
    /\ UNCHANGED powerVars

\* station_metrics restricted to the stations that had a charging event
StationMetrics ==
    UNION {[used -> WaitLists] : used \in SUBSET MetricStations}

(***************************************************************************)
(* History of what was fed to the tracker for a vehicle since it was last  *)
(* reset by an arrival at a station.  It is computed from the arguments of *)
(* the calls alone, never from the tracker's state.                        *)
(*   first_nonempty : time of the first tick with a non-empty candidate    *)
(*   first_search   : time of the first tick with a non-empty candidate    *)
(*                    while the assigned point was "NULL"                  *)
(*   cand_groups    : groups of all the non-empty candidates               *)
(*   target         : the candidate of the latest such unassigned tick     *)
(*   first_cross    : the first tick whose candidate resolved to another   *)
(*                    group than the target before it, with that target    *)
(*   crosses        : number of such ticks (2 stands for two or more)      *)
(***************************************************************************)
NoHistory ==
    [first_nonempty |-> None, first_search |-> None, cand_groups |-> {},
     target |-> None, first_cross |-> None, crosses |-> 0]

Min2(n) == IF n < 2 THEN n ELSE 2

HistoryAfterTick(h, now_s, now_b, now_time) ==
    LET seen == now_s # EmptyStr
        fed == seen /\ now_b = NULL
        cross == fed /\ h.target # None
                 /\ get_group_id(h.target[1]) # get_group_id(now_s)
    IN  [first_nonempty |-> IF seen /\ h.first_nonempty = None
                            THEN Some(now_time) ELSE h.first_nonempty,
         first_search |-> IF fed /\ h.first_search = None
                          THEN Some(now_time) ELSE h.first_search,
         cand_groups |-> IF seen THEN h.cand_groups \cup {get_group_id(now_s)}
                         ELSE h.cand_groups,
         target |-> IF fed THEN Some(now_s) ELSE h.target,
         first_cross |-> IF cross /\ h.first_cross = None
                         THEN Some([t |-> now_time, station |-> h.target[1],
                                    group |-> get_group_id(h.target[1])])
                         ELSE h.first_cross,
         crosses |-> IF cross THEN Min2(h.crosses + 1) ELSE h.crosses]

(***************************************************************************)
(* The sessions of each group, counted from the arguments of the calls and *)
(* the history alone:                                                      *)
(*   started : sessions whose first fed candidate was of the group         *)
(*   arrived : sessions closed by an arrival at a station of the group     *)
(*   with_in : of these, the ones that came from another group             *)
(*   out     : sessions that started in the group and arrived elsewhere    *)
(***************************************************************************)
NoTally == [started |-> <<>>, arrived |-> <<>>, with_in |-> <<>>, out |-> <<>>]

TallyAfterTick(t, h, now_s, now_b) ==
    IF h.first_search = None /\ now_s # EmptyStr /\ now_b = NULL
    THEN [t EXCEPT !.started = dict_inc(@, get_group_id(now_s))]
    ELSE t

TallyAfterArrival(t, h, cs_id) ==
    LET g == get_group_id(cs_id)
        detour == h.first_cross # None /\ h.first_cross[1].group # g
    IN  IF no_station(cs_id) THEN t
        ELSE [t EXCEPT
                 !.arrived = IF h.first_search # None THEN dict_inc(@, g) ELSE @,
                 !.with_in = IF detour THEN dict_inc(@, g) ELSE @,
                 !.out = IF detour THEN dict_inc(@, h.first_cross[1].group)
                         ELSE @]

(***************************************************************************)
(* What the last call found, for the witnesses: computed from the history  *)
(* before the call and the call's arguments.                               *)
(***************************************************************************)
NoFlags ==
    [searched |-> FALSE, one_group |-> FALSE, crosses |-> 0, home |-> FALSE,
     at_target |-> FALSE, retarget |-> FALSE]

FlagsOf(h, cs_id, now_b) ==
    LET fed == cs_id # EmptyStr /\ now_b = NULL /\ h.target # None
    IN  [searched |-> h.first_search # None,
         one_group |-> Cardinality(h.cand_groups) <= 1,
         crosses |-> h.crosses,
         home |-> h.first_cross # None
                  /\ h.first_cross[1].group = get_group_id(cs_id),
         at_target |-> h.target # None
                       /\ get_group_id(h.target[1]) = get_group_id(cs_id),
         retarget |-> fed /\ h.target[1] # cs_id
                      /\ get_group_id(h.target[1]) = get_group_id(cs_id)]

(***************************************************************************)
(* run_simulation's loop, as the tracker sees it: traci.simulationStep()   *)
(* advances the time, then tick_update_vehicle is called once for each EV  *)
(* of getIDList() in the list's order, then handle_arrival once for each   *)
(* EV of getStopStartingVehiclesIDList().  Which vehicles are in the lists *)
(* and what the engine reports for them is free.                           *)
(***************************************************************************)
Rank(v) == CHOOSE i \in 1..Len(VehOrder) : VehOrder[i] = v

TickUpdateVehicle(veh_id, now_s, now_b) ==
    LET vs == veh_of(veh_state, veh_id)
    IN  /\ phase = "ticks"
        /\ now > 0
        /\ Rank(veh_id) > cursor
        /\ cursor' = Rank(veh_id)
        /\ veh_state' = (veh_id :> tick_veh_state(vs, now_s, now_b, now))
                        @@ veh_state
        /\ group_session_starts' =
               tick_session_starts(group_session_starts, vs, now_s, now_b)
        /\ hist' = [hist EXCEPT
                       ![veh_id] = HistoryAfterTick(@, now_s, now_b, now)]
        /\ last' = [op |-> "tick", veh |-> veh_id, cs |-> now_s, b |-> now_b,
                    f |-> FlagsOf(hist[veh_id], now_s, now_b)]
        /\ tally' = TallyAfterTick(tally, hist[veh_id], now_s, now_b)
        /\ UNCHANGED <<per_station, group_sessions_with_out, now, arrivals,
                       phase>>
        /\ UNCHANGED powerVars
        /\ UNCHANGED helperVars

HandleArrival(veh_id, cs_id) ==
    /\ now > 0
    /\ arrivals < MaxArrivals
    /\ phase = "arrivals" => Rank(veh_id) > cursor
    /\ phase' = "arrivals"
    /\ cursor' = Rank(veh_id)
    /\ arrivals' = arrivals + 1
    /\ UNCHANGED powerVars
    /\ UNCHANGED helperVars
    /\ last' = [op |-> "arrival", veh |-> veh_id, cs |-> cs_id, b |-> NULL,
                f |-> FlagsOf(hist[veh_id], cs_id, NULL)]
    /\ tally' = TallyAfterArrival(tally, hist[veh_id], cs_id)
    /\ IF no_station(cs_id)
       THEN UNCHANGED <<veh_state, per_station, group_session_starts,
                        group_sessions_with_out, now, hist>>
       ELSE LET vs == veh_of(veh_state, veh_id)
            IN  /\ per_station' =
                       finalize_reroute(close_search(per_station, vs, cs_id, now),
                                        vs, cs_id, now)
                /\ group_sessions_with_out' =
                       finalize_with_out(group_sessions_with_out, vs, cs_id)
                /\ veh_state' = (veh_id :> reset_session(vs)) @@ veh_state
                /\ hist' = [hist EXCEPT ![veh_id] = NoHistory]
                /\ UNCHANGED <<group_session_starts, now>>

\* traci.simulationStep(): the engine's time advances
SimulationStep ==
    /\ now < MaxTime
    /\ now' = now + 1
    /\ phase' = "ticks"
    /\ cursor' = 0
    /\ last' = [op |-> "step", veh |-> "", cs |-> EmptyStr, b |-> NULL,
                f |-> NoFlags]
    /\ UNCHANGED <<veh_state, per_station, group_session_starts,
                   group_sessions_with_out, arrivals, hist, tally>>
    /\ UNCHANGED powerVars
    /\ UNCHANGED helperVars

InitTracker ==
    /\ veh_state = <<>>
    /\ per_station = <<>>
    /\ group_session_starts = <<>>
    /\ group_sessions_with_out = <<>>
    /\ now = 0
    /\ phase = "ticks"
    /\ cursor = 0
    /\ arrivals = 0
    /\ hist = [v \in Vehicles |-> NoHistory]
    /\ last = [op |-> "init", veh |-> "", cs |-> EmptyStr, b |-> NULL,
               f |-> NoFlags]
    /\ tally = NoTally

(***************************************************************************)
(* simulation.py: the power allocation.                                    *)
(*                                                                         *)
(* Powers are exact rationals.  The state-of-charge ceiling               *)
(*   1.1 * maxBattery * (110 - 100 * actualBattery / maxBattery) / 33      *)
(* equals (11 * maxBattery - 10 * actualBattery) / 3, so a base power is   *)
(* kept as its numerator over 3 ("thirds"); a factor and a delivered power *)
(* are kept as a reduced fraction <<numerator, denominator>>.              *)
(***************************************************************************)
MaxTicks == 3

PowerStations == {csA0, csA1, csB0}

\* <param key="group">: the group a charging point was generated for
station_group == (csA0 :> "e1") @@ (csA1 :> "e1") @@ (csB0 :> "e2")

\* <param key="allowedPowerOutput">: the rated output of a point
allowedPowerOutput == (csA0 :> 10) @@ (csA1 :> 15) @@ (csB0 :> 7)

\* <param key="groupPower">: rating * points of the group * station factor
GroupPowerChoices ==
    { (("e1" :> c1) @@ ("e2" :> c2)) : c1 \in {8, 12, 20}, c2 \in {5, 7} }

\* allowedPowerIntake of the vehicle type "EV"
allowedPowerIntake == 12

\* device.battery.maximumBatteryCapacity and the readings of
\* device.battery.actualBatteryCapacity the engine may report
maximumBatteryCapacity == [v \in Vehicles |-> 6]
BatteryReadings == {0, 4, 5, 6}

\* vehList.remove(veh): the first occurrence is removed
RECURSIVE list_remove(_, _)
list_remove(lst, veh) ==
    IF lst = <<>> THEN <<>>
    ELSE IF Head(lst) = veh THEN Tail(lst)
    ELSE <<Head(lst)>> \o list_remove(Tail(lst), veh)

\* the loop over getStopEndingVehiclesIDList
RECURSIVE remove_ending(_, _)
remove_ending(lst, ending) ==
    IF ending = {} THEN lst
    ELSE LET veh == CHOOSE x \in ending : TRUE
         IN  remove_ending(list_remove(lst, veh), ending \ {veh})

\* the loop over getStopStartingVehiclesIDList: vehList.append(veh)
RECURSIVE append_starting(_, _)
append_starting(lst, starting) ==
    IF starting = {} THEN lst
    ELSE LET veh == CHOOSE x \in starting : TRUE
         IN  append_starting(Append(lst, veh), starting \ {veh})

\* csDict[group]: the points of the vehicles of vehList that are in the group
RECURSIVE cs_of_group(_, _, _)
cs_of_group(lst, cs, group) ==
    IF lst = <<>> THEN <<>>
    ELSE (IF station_group[cs[Head(lst)]] = group
          THEN <<cs[Head(lst)]>> ELSE <<>>)
         \o cs_of_group(Tail(lst), cs, group)

\* group_factor with the demand of the first point taken for the sum
group_factor_of_first(csGroup, desired, maxPower) ==
    LET sumDesired == desired[csGroup[1]]
    IN  IF sumDesired > 3 * maxPower
        THEN Frac(3 * maxPower, sumDesired)
        ELSE <<1, 1>>

\* group_factor with the quotient taken the other way round
group_factor_inverted(csGroup, desired, maxPower) ==
    LET sumDesired == SeqSum([i \in 1..Len(csGroup) |-> desired[csGroup[i]]])
    IN  IF sumDesired > 3 * maxPower
        THEN Frac(sumDesired, 3 * maxPower)
        ELSE <<1, 1>>

\* the factor calculateAliquotPowerAdjustments computes for one group
group_factor(csGroup, desired, maxPower) ==
    LET sumDesired == SeqSum([i \in 1..Len(csGroup) |-> desired[csGroup[i]]])
    IN  IF sumDesired > 3 * maxPower
        THEN Frac(3 * maxPower, sumDesired)
        ELSE <<1, 1>>

\* calculateAliquotPowerAdjustments: "aliquotPowerAdjustment" of every point
calculateAliquotPowerAdjustments(lst, cs, desired, factors, caps) ==
    [c \in DOMAIN factors |->
        LET csGroup == cs_of_group(lst, cs, station_group[c])
        IN  IF \E i \in 1..Len(csGroup) : csGroup[i] = c
            THEN group_factor(csGroup, desired, caps[station_group[csGroup[1]]])
            ELSE factors[c]]

\* base_power without the vehicle's intake limit
base_power_ignores_intake(veh, csId, battery) ==
    LET maxPsoc == 11 * maximumBatteryCapacity[veh] - 10 * battery[veh]
        maxPcp == 3 * allowedPowerOutput[csId]
    IN  Min(maxPsoc, maxPcp)

\* min(maxPsoc, maxPcp, maxPev) of setChargingStationPowers, in thirds
base_power(veh, csId, battery) ==
    LET maxPsoc == 11 * maximumBatteryCapacity[veh] - 10 * battery[veh]
        maxPcp == 3 * allowedPowerOutput[csId]
        maxPev == 3 * allowedPowerIntake
    IN  Min(maxPsoc, Min(maxPcp, maxPev))

occupant_of(lst, cs, c) == CHOOSE i \in 1..Len(lst) : cs[lst[i]] = c
occupied(lst, cs, c) == \E i \in 1..Len(lst) : cs[lst[i]] = c

\* setChargingStationPowers: "desiredPower" of every point
set_desired_power(lst, cs, battery, desired) ==
    [c \in DOMAIN desired |->
        IF occupied(lst, cs, c)
        THEN base_power(lst[occupant_of(lst, cs, c)], c, battery)
        ELSE desired[c]]

\* setChargingStationPowers: "power" of every point
set_power(lst, cs, battery, factors, powers) ==
    [c \in DOMAIN powers |->
        IF occupied(lst, cs, c)
        THEN LET p == base_power(lst[occupant_of(lst, cs, c)], c, battery)
             IN  Frac(p * factors[c][1], 3 * factors[c][2])
        ELSE powers[c]]

ListSet(lst) == {lst[i] : i \in 1..Len(lst)}

(***************************************************************************)
(* One iteration of run_simulation's loop, as the power controller sees    *)
(* it: the vehicles starting a stop at a free point are appended and their *)
(* point gets desiredPower 0 and factor 1, the vehicles ending their stop  *)
(* are removed, then phase 1 and phase 2 run over the list.  The battery   *)
(* of a vehicle that stays at its point does not discharge.                *)
(***************************************************************************)
PowerTick(starting, at, ending, battery) ==
    LET lst == remove_ending(append_starting(vehList, starting), ending)
        cs == [v \in Vehicles |->
                  IF v \in starting THEN at[v]
                  ELSE IF v \in ending THEN NULL ELSE vehCs[v]]
        csAll == [v \in Vehicles |-> IF v \in starting THEN at[v] ELSE vehCs[v]]
        desired0 == [c \in PowerStations |->
                        IF \E v \in starting : at[v] = c THEN 0
                        ELSE desiredPower[c]]
        aliquot0 == [c \in PowerStations |->
                        IF \E v \in starting : at[v] = c THEN <<1, 1>>
                        ELSE aliquot[c]]
        aliquot1 == calculateAliquotPowerAdjustments(lst, csAll, desired0,
                                                     aliquot0, groupPower)
    IN  /\ ptick < MaxTicks
        /\ ptick' = ptick + 1
        /\ vehList' = lst
        /\ vehCs' = cs
        /\ actualBattery' = battery
        /\ aliquot' = aliquot1
        /\ desiredPower' = set_desired_power(lst, csAll, battery, desired0)
        /\ power' = set_power(lst, csAll, battery, aliquot1, power)
        /\ UNCHANGED groupPower
        /\ UNCHANGED trackerVars
        /\ UNCHANGED helperVars

NextPower ==
    \E starting \in SUBSET (Vehicles \ ListSet(vehList)) :
    \E ending \in SUBSET ListSet(vehList) :
    \E at \in [starting -> PowerStations] :
    \E battery \in [Vehicles -> BatteryReadings] :
        /\ \A v, w \in starting : v # w => at[v] # at[w]
        /\ \A v \in starting : ~occupied(vehList, vehCs, at[v])
        /\ \A v \in Vehicles :
              IF v \in ListSet(vehList) \ ending
              THEN battery[v] >= actualBattery[v]
              ELSE v \notin starting => battery[v] = 0
        /\ PowerTick(starting, at, ending, battery)

InitPower ==
    /\ vehList = <<>>
    /\ vehCs = [v \in Vehicles |-> NULL]
    /\ actualBattery = [v \in Vehicles |-> 0]
    /\ desiredPower = [c \in PowerStations |-> 0]
    /\ aliquot = [c \in PowerStations |-> <<1, 1>>]
    /\ power = [c \in PowerStations |-> <<allowedPowerOutput[c], 1>>]
    /\ groupPower \in GroupPowerChoices
    /\ ptick = 0

\* no helper was called on its own and the run has not ended
NoCall == [fn |-> "none", arg |-> <<>>, out |-> None]

InitHelpers ==
    /\ report = None
    /\ calc = NoCall

\* what the engine may report for a vehicle: the first vehicle of the list
\* is fed every combination, the others search for one point of group e2
CandidatesOf(v) == IF Rank(v) = 1 THEN Candidates ELSE {csB0}
AssignedOf(v) == IF Rank(v) = 1 THEN Assigned ELSE {NULL}
ArrivalIdsOf(v) == IF Rank(v) = 1 THEN ArrivalIds ELSE {csB0}

NextTracker ==
    \/ \E v \in Vehicles : \E s \in CandidatesOf(v), b \in AssignedOf(v) :
           TickUpdateVehicle(v, s, b)
    \/ \E v \in Vehicles : \E c \in ArrivalIdsOf(v) : HandleArrival(v, c)
    \/ SimulationStep

\* the tracker alone: no vehicle ever charges
InitTrackerOnly ==
    /\ InitTracker
    /\ InitPower
    /\ groupPower = (CHOOSE caps \in GroupPowerChoices : TRUE)
    /\ InitHelpers

SpecTracker == InitTrackerOnly /\ [][NextTracker]_vars

\* the power controller alone, over any arrivals and departures
InitPowerOnly ==
    /\ InitTracker
    /\ InitPower
    /\ InitHelpers

SpecPower == InitPowerOnly /\ [][NextPower]_vars

\* _find_queue_entry_time alone, over traces, zones and deadlines
InitEntry ==
    /\ InitTracker
    /\ InitPower
    /\ groupPower = (CHOOSE caps \in GroupPowerChoices : TRUE)
    /\ report = None
    /\ calc \in {[fn |-> "entry",
                  arg |-> [samples |-> samples, zone |-> queue_lanes(<<"e1">>, n),
                           t_end |-> t_end],
                  out |-> None] :
                    samples \in SampleSeries, n \in 1..2,
                    t_end \in 0..MaxSampleTime}

SpecEntry == InitEntry /\ [][FindQueueEntryTime]_vars

\* _compute_session_waits_and_queues alone, over events and traces
InitSessions ==
    /\ InitTracker
    /\ InitPower
    /\ groupPower = (CHOOSE caps \in GroupPowerChoices : TRUE)
    /\ report = None
    /\ calc \in {[fn |-> "sessions",
                  arg |-> [events |-> events_of(choice), fcd |-> fcd],
                  out |-> NoSessions] :
                    choice \in EventLists, fcd \in Traces}

SpecSessions == InitSessions /\ [][ComputeSessionWaitsAndQueues]_vars

\* _compute_group_and_totals alone, over the waits of up to three stations
InitWaits ==
    /\ InitTracker
    /\ InitPower
    /\ groupPower = (CHOOSE caps \in GroupPowerChoices : TRUE)
    /\ report = None
    /\ calc \in {[fn |-> "waits", arg |-> station_metrics, out |-> None] :
                    station_metrics \in StationMetrics}

SpecWaits == InitWaits /\ [][ComputeGroupAndTotals]_vars

(***************************************************************************)
(* One vehicle through run_simulation: every iteration of the loop         *)
(* advances the engine's time by one, feeds the vehicle's s and b to       *)
(* tick_update_vehicle, handles its arrival if it starts its stop in that  *)
(* step and runs the two power phases.  The engine reports no candidate    *)
(* before calc.arg (the time the search opens), candidates of group e1     *)
(* for SearchLeg steps, cs_e2_0 for DetourLeg steps, and the start of the  *)
(* stop at cs_e2_0 after that; the vehicle then stays for MaxStay steps.   *)
(* calc.out holds the last candidate of group e1.                          *)
(***************************************************************************)
SearchLeg == 42
DetourLeg == 10
MaxStay == 3
MaxStart == 3
Traveller == VehOrder[1]

ArrivalTime(t0) == t0 + SearchLeg + DetourLeg

\* what the engine may report at time t: s, b and whether the stop starts
Feed(t0, t) ==
    IF t < t0 THEN {[s |-> EmptyStr, b |-> NULL, starts |-> FALSE]}
    ELSE IF t < t0 + SearchLeg
    THEN {[s |-> c, b |-> NULL, starts |-> FALSE] : c \in {csA0, csA1}}
    ELSE IF t < ArrivalTime(t0)
    THEN {[s |-> csB0, b |-> NULL, starts |-> FALSE]}
    ELSE IF t = ArrivalTime(t0)
    THEN {[s |-> c, b |-> csB0, starts |-> TRUE] : c \in {csB0, EmptyStr}}
    ELSE {[s |-> EmptyStr, b |-> csB0, starts |-> FALSE]}

RunSimulationStep(feed, reading) ==
    LET t == now + 1
        vs == tick_veh_state(veh_of(veh_state, Traveller), feed.s, feed.b, t)
        starting == IF feed.starts THEN {Traveller} ELSE {}
        lst == append_starting(vehList, starting)
        cs == [v \in Vehicles |-> IF v \in starting THEN feed.b ELSE vehCs[v]]
        battery == [actualBattery EXCEPT ![Traveller] = reading]
        desired0 == [c \in PowerStations |->
                        IF feed.starts /\ feed.b = c THEN 0
                        ELSE desiredPower[c]]
        aliquot0 == [c \in PowerStations |->
                        IF feed.starts /\ feed.b = c THEN <<1, 1>>
                        ELSE aliquot[c]]
        aliquot1 == calculateAliquotPowerAdjustments(lst, cs, desired0,
                                                     aliquot0, groupPower)
    IN  /\ calc.fn = "scenario"
        /\ now < ArrivalTime(calc.arg) + MaxStay
        /\ now' = t
        /\ group_session_starts' =
               tick_session_starts(group_session_starts,
                                   veh_of(veh_state, Traveller), feed.s, feed.b)
        /\ IF feed.starts
           THEN /\ per_station' =
                       finalize_reroute(close_search(per_station, vs, feed.b, t),
                                        vs, feed.b, t)
                /\ group_sessions_with_out' =
                       finalize_with_out(group_sessions_with_out, vs, feed.b)
                /\ veh_state' = (Traveller :> reset_session(vs)) @@ veh_state
           ELSE /\ veh_state' = (Traveller :> vs) @@ veh_state
                /\ UNCHANGED <<per_station, group_sessions_with_out>>
        /\ vehList' = lst
        /\ vehCs' = cs
        /\ actualBattery' = battery
        /\ aliquot' = aliquot1
        /\ desiredPower' = set_desired_power(lst, cs, battery, desired0)
        /\ power' = set_power(lst, cs, battery, aliquot1, power)
        /\ ptick' = IF lst = <<>> THEN ptick ELSE ptick + 1
        /\ calc' = IF get_group_id(feed.s) = "e1"
                   THEN [calc EXCEPT !.out = Some(feed.s)] ELSE calc
        /\ UNCHANGED <<groupPower, report, phase, cursor, arrivals, hist, last,
                       tally>>

NextScenario ==
    \E feed \in Feed(calc.arg, now + 1) :
    \E reading \in BatteryReadings :
        /\ IF feed.b = NULL THEN reading = 0
           ELSE reading >= actualBattery[Traveller]
        /\ RunSimulationStep(feed, reading)

\* the search opens at any of the first steps; the cap of group e2 is the
\* rating of its one point
InitScenario ==
    /\ InitTracker
    /\ InitPower
    /\ groupPower["e2"] = allowedPowerOutput[csB0]
    /\ report = None
    /\ calc \in {[fn |-> "scenario", arg |-> t0, out |-> None] :
                    t0 \in 1..MaxStart}

SpecScenario == InitScenario /\ [][NextScenario]_vars

(***************************************************************************)
(* The power controller over vehicles of any battery capacity.  The        *)
(* capacity device.battery.maximumBatteryCapacity is a parameter of the    *)
(* vehicle that the engine hands back as it was given; calc.arg holds it   *)
(* for every vehicle.  No statement of run_simulation or of                *)
(* setChargingStationPowers catches an exception: the first one raised     *)
(* ends the loop over vehList, the loop of run_simulation and the run,     *)
(* and calc.out holds it.                                                  *)
(***************************************************************************)
MaxBatteryChoices == {0, 6}
ZeroDivisionError == "ZeroDivisionError"

\* min(maxPsoc, maxPcp, maxPev) for a vehicle of capacity maxBattery > 0
min_of_ceilings(maxBattery, actual, csId) ==
    LET maxPsoc == 11 * maxBattery - 10 * actual
        maxPcp == 3 * allowedPowerOutput[csId]
        maxPev == 3 * allowedPowerIntake
    IN  Min(maxPsoc, Min(maxPcp, maxPev))

\* the loop of setChargingStationPowers from the i-th vehicle of the list:
\* 100 * actualBattery / maxBattery raises when maxBattery is 0.0
RECURSIVE set_powers_from(_, _, _, _, _, _, _)
set_powers_from(lst, i, cs, battery, maxBattery, factors, st) ==
    IF i > Len(lst) THEN st
    ELSE LET veh == lst[i]
             csId == cs[veh]
         IN  IF maxBattery[veh] = 0
             THEN [st EXCEPT !.raised = Some(ZeroDivisionError)]
             ELSE LET p == min_of_ceilings(maxBattery[veh], battery[veh], csId)
                      actualPower == Frac(p * factors[csId][1],
                                          3 * factors[csId][2])
                  IN  set_powers_from(lst, i + 1, cs, battery, maxBattery,
                          factors,
                          [st EXCEPT !.desired[csId] = p,
                                     !.power[csId] = actualPower])

\* one iteration of run_simulation's loop, the run being alive
SetPowersOrRaise(starting, at, ending, battery) ==
    LET lst == remove_ending(append_starting(vehList, starting), ending)
        cs == [v \in Vehicles |->
                  IF v \in starting THEN at[v]
                  ELSE IF v \in ending THEN NULL ELSE vehCs[v]]
        csAll == [v \in Vehicles |-> IF v \in starting THEN at[v] ELSE vehCs[v]]
        desired0 == [c \in PowerStations |->
                        IF \E v \in starting : at[v] = c THEN 0
                        ELSE desiredPower[c]]
        aliquot0 == [c \in PowerStations |->
                        IF \E v \in starting : at[v] = c THEN <<1, 1>>
                        ELSE aliquot[c]]
        aliquot1 == calculateAliquotPowerAdjustments(lst, csAll, desired0,
                                                     aliquot0, groupPower)
        st == set_powers_from(lst, 1, csAll, battery, calc.arg, aliquot1,
                              [desired |-> desired0, power |-> power,
                               raised |-> None])
    IN  /\ ptick < MaxTicks
        /\ calc.out = None
        /\ ptick' = ptick + 1
        /\ vehList' = lst
        /\ vehCs' = cs
        /\ actualBattery' = battery
        /\ aliquot' = aliquot1
        /\ desiredPower' = st.desired
        /\ power' = st.power
        /\ calc' = [calc EXCEPT !.out = st.raised]
        /\ UNCHANGED groupPower
        /\ UNCHANGED trackerVars
        /\ UNCHANGED report

NextFault ==
    \E starting \in SUBSET (Vehicles \ ListSet(vehList)) :
    \E ending \in SUBSET ListSet(vehList) :
    \E at \in [starting -> PowerStations] :
    \E battery \in [Vehicles -> BatteryReadings] :
        /\ \A v, w \in starting : v # w => at[v] # at[w]
        /\ \A v \in starting : ~occupied(vehList, vehCs, at[v])
        /\ \A v \in Vehicles :
              IF v \in ListSet(vehList) \ ending
              THEN battery[v] >= actualBattery[v]
              ELSE v \notin starting => battery[v] = 0
        /\ \A v \in Vehicles : battery[v] <= calc.arg[v]
        /\ SetPowersOrRaise(starting, at, ending, battery)

InitFault ==
    /\ InitTracker
    /\ InitPower
    /\ report = None
    /\ calc \in {[fn |-> "setChargingStationPowers", arg |-> m, out |-> None] :
                    m \in [Vehicles -> MaxBatteryChoices]}

SpecFault == InitFault /\ [][NextFault]_vars

\* the decompositions alone, over every pair of ids
InitIds ==
    /\ InitTracker
    /\ InitPower
    /\ groupPower = (CHOOSE caps \in GroupPowerChoices : TRUE)
    /\ report = None
    /\ calc \in {[fn |-> "ids", arg |-> <<a, b>>, out |-> None] :
                    a \in Ids, b \in Ids}

SpecIds == InitIds /\ [][DecomposeIds]_vars

\* the nearest-rank percentile alone, over lists and percentiles
InitPercentile ==
    /\ InitTracker
    /\ InitPower
    /\ groupPower = (CHOOSE caps \in GroupPowerChoices : TRUE)
    /\ report = None
    /\ calc \in {[fn |-> "percentile", arg |-> <<values, p>>, out |-> None] :
                    values \in SampleLists, p \in Percentiles}

SpecPercentile == InitPercentile /\ [][PercentileNearestRank]_vars

(***************************************************************************)
(* finalize_json at the end of a run.  The data it finds are those a run   *)
(* leaves behind: they are built here from the sessions the run closed,    *)
(* each applied as handle_arrival applies it.  A closed session arrived at *)
(* dest after st seconds of search; if it was rerouted, it had started at  *)
(* a station of another group and the reroute lasted st - 1 seconds.       *)
(***************************************************************************)
\* where the sessions of a run may arrive: once at cs_e1_0, up to three
\* times at cs_e1_1 and once at cs_e2_0
SessionSlots == <<csA0, csA1, csA1, csA1, csB0>>

\* the station a rerouted session arriving at dest started from
origin_of(dest) == IF get_group_id(dest) = "e1" THEN csB0 ELSE csA0

NoSession == [closed |-> FALSE, st |-> 0, rerouted |-> FALSE]
SlotChoices ==
    {NoSession} \cup
    {[closed |-> TRUE, st |-> st, rerouted |-> r] :
        st \in Samples, r \in BOOLEAN}

EmptyData == [per_station |-> <<>>, starts |-> <<>>, outs |-> <<>>]

\* the vehicle's state when it arrives at dest at time st, its search having
\* started at time 0
arriving_state(dest, s) ==
    LET first == IF s.rerouted THEN origin_of(dest) ELSE dest
    IN  [_new_veh_state EXCEPT
            !.search_active = TRUE,
            !.search_start_t = Some(0),
            !.search_target_station = dest,
            !.search_target_group = get_group_id(dest),
            !.current_group = get_group_id(dest),
            !.pending_reroute =
                IF s.rerouted
                THEN Some([origin_group |-> get_group_id(first),
                           origin_station |-> first,
                           start_t |-> 1])
                ELSE None]

\* the data after the sessions of slots i.. were started and closed
RECURSIVE data_after(_, _, _)
data_after(data, sessions, i) ==
    IF i > Len(sessions) THEN data
    ELSE IF ~sessions[i].closed THEN data_after(data, sessions, i + 1)
    ELSE LET dest == SessionSlots[i]
             s == sessions[i]
             vs == arriving_state(dest, s)
             first == IF s.rerouted THEN origin_of(dest) ELSE dest
         IN  data_after(
                 [per_station |->
                      finalize_reroute(
                          close_search(data.per_station, vs, dest, s.st),
                          vs, dest, s.st),
                  starts |-> dict_inc(data.starts, get_group_id(first)),
                  outs |-> finalize_with_out(data.outs, vs, dest)],
                 sessions, i + 1)

\* finalize_json(reroutingData): the station aggregates it also writes into
\* the data are those of the report before rounding and are not read again
FinalizeJson ==
    /\ report = None
    /\ calc.fn = "report"
    /\ report' = Some(finalize_json(per_station, group_session_starts,
                                    group_sessions_with_out))
    /\ UNCHANGED calc
    /\ UNCHANGED trackerVars
    /\ UNCHANGED powerVars

InitReport ==
    /\ \E sessions \in [1..Len(SessionSlots) -> SlotChoices] :
          LET data == data_after(EmptyData, sessions, 1)
          IN  /\ per_station = data.per_station
              /\ group_session_starts = data.starts
              /\ group_sessions_with_out = data.outs
    /\ veh_state = <<>>
    /\ now = 0
    /\ phase = "ticks"
    /\ cursor = 0
    /\ arrivals = 0
    /\ hist = [v \in Vehicles |-> NoHistory]
    /\ last = [op |-> "init", veh |-> "", cs |-> EmptyStr, b |-> NULL,
               f |-> NoFlags]
    /\ tally = NoTally
    /\ InitPower
    /\ groupPower = (CHOOSE caps \in GroupPowerChoices : TRUE)
    /\ report = None
    /\ calc = [fn |-> "report", arg |-> <<>>, out |-> None]

SpecReport == InitReport /\ [][FinalizeJson]_vars

(***************************************************************************)
(* Properties of the tracker.  In an action formula the unprimed variables *)
(* are the state before the call and last' names the call of the step.     *)
(***************************************************************************)
\* the record of a station, an absent one read as an empty one
Station(ps, cs_id) ==
    IF cs_id \in DOMAIN ps THEN ps[cs_id] ELSE _new_station_data

GroupIds == {get_group_id(c) : c \in StationIds} \ {""}

IsTick == last'.op = "tick"
IsArrival == last'.op = "arrival"
AtStation == IsArrival /\ ~no_station(last'.cs)

SearchTimesKept(keep) ==
    \A x \in keep :
        /\ Station(per_station', x).search_times
               = Station(per_station, x).search_times
        /\ Station(per_station', x).sessions = Station(per_station, x).sessions

ReroutesInKept(keep) ==
    \A x \in keep :
        /\ Station(per_station', x).reroute_in_times
               = Station(per_station, x).reroute_in_times
        /\ Station(per_station', x).reroute_in_count
               = Station(per_station, x).reroute_in_count

ReroutesOutKept(keep) ==
    \A x \in keep :
        /\ Station(per_station', x).reroute_out_times
               = Station(per_station, x).reroute_out_times
        /\ Station(per_station', x).reroute_out_count
               = Station(per_station, x).reroute_out_count

\* exactly one session of the given duration is added at station c
OneSessionAt(c, duration) ==
    /\ Station(per_station', c).search_times
           = Append(Station(per_station, c).search_times, duration)
    /\ Station(per_station', c).sessions = Station(per_station, c).sessions + 1
    /\ SearchTimesKept(StationIds \ {c})

\* exactly one reroute pair of the given duration: OUT at o, IN at c
OneReroutePair(o, c, duration) ==
    /\ Station(per_station', o).reroute_out_times
           = Append(Station(per_station, o).reroute_out_times, duration)
    /\ Station(per_station', o).reroute_out_count
           = Station(per_station, o).reroute_out_count + 1
    /\ Station(per_station', c).reroute_in_times
           = Append(Station(per_station, c).reroute_in_times, duration)
    /\ Station(per_station', c).reroute_in_count
           = Station(per_station, c).reroute_in_count + 1
    /\ ReroutesOutKept(StationIds \ {o})
    /\ ReroutesInKept(StationIds \ {c})

NoReroute ==
    /\ ReroutesInKept(StationIds)
    /\ ReroutesOutKept(StationIds)
    /\ group_sessions_with_out' = group_sessions_with_out

IsIdle(vs) ==
    /\ vs.search_active = FALSE
    /\ vs.search_start_t = None
    /\ vs.search_target_station = EmptyStr
    /\ vs.search_target_group = ""
    /\ vs.pending_reroute = None

\* C2 as stated: after ticks whose non-empty candidates all resolve to one
\* group, an arrival at a station emits exactly one session, whose duration
\* is the arrival time minus the time of the first tick with a non-empty
\* candidate, and no reroute.
C2_AsStated ==
    [][ LET h == hist[last'.veh]
        IN  (AtStation /\ h.first_nonempty # None
                       /\ Cardinality(h.cand_groups) <= 1)
            => /\ OneSessionAt(last'.cs, now - h.first_nonempty[1])
               /\ NoReroute ]_vars

\* C2 amended: after ticks whose non-empty candidates all resolve to one
\* group and of which at least one was seen while the assigned point was
\* "NULL", an arrival at a station emits exactly one session, whose duration
\* is the arrival time minus the time of the first tick with a non-empty
\* candidate and the assigned point "NULL", and no reroute.
C2_SameGroupSession ==
    [][ LET h == hist[last'.veh]
        IN  (AtStation /\ h.first_search # None
                       /\ Cardinality(h.cand_groups) <= 1)
            => /\ OneSessionAt(last'.cs, now - h.first_search[1])
               /\ NoReroute ]_vars

C2_Witness ==
    /\ last.op = "arrival" /\ ~no_station(last.cs)
    /\ last.f.searched /\ last.f.one_group
    /\ Station(per_station, last.cs).search_times = <<2>>

\* C3: a search that starts in group G1, is retargeted once to another group
\* G2 and arrives at a station of G2 appends exactly one reroute-out duration
\* at the station targeted just before the retarget and one reroute-in
\* duration at the arrival station, both the arrival time minus the time of
\* the retarget, and raises G1's reroute-out numerator by one.
C3_DetourPair ==
    [][ LET h == hist[last'.veh]
        IN  (AtStation /\ h.crosses = 1
                       /\ h.first_cross[1].group # ""
                       /\ get_group_id(h.target[1]) = get_group_id(last'.cs))
            => LET fc == h.first_cross[1]
               IN  /\ OneReroutePair(fc.station, last'.cs, now - fc.t)
                   /\ \A g \in GroupIds \cup {""} :
                          dict_get(group_sessions_with_out', g)
                              = dict_get(group_sessions_with_out, g)
                                + (IF g = fc.group THEN 1 ELSE 0) ]_vars

C3_Witness ==
    /\ last.op = "arrival" /\ ~no_station(last.cs)
    /\ last.f.crosses = 1 /\ last.f.at_target /\ ~last.f.home
    /\ dict_get(group_sessions_with_out, "e1") = 1
    /\ Station(per_station, csB0).reroute_in_times = <<1>>
    /\ Station(per_station, csA1).reroute_out_times = <<1>>

\* C4: an arrival in the group the first cross-group retarget left (the
\* detour returned home) records no reroute-in, no reroute-out and raises no
\* reroute-out numerator, and still appends the search duration (arrival
\* time minus search start time) at the arrival station.
C4_ReturnedHome ==
    [][ LET h == hist[last'.veh]
        IN  (AtStation /\ h.first_cross # None
                       /\ h.first_cross[1].group = get_group_id(last'.cs))
            => /\ NoReroute
               /\ OneSessionAt(last'.cs, now - h.first_search[1]) ]_vars

C4_Witness ==
    /\ last.op = "arrival" /\ ~no_station(last.cs)
    /\ last.f.home /\ last.f.crosses = 2 /\ last.f.at_target
    /\ Station(per_station, last.cs).sessions = 1

\* C5: once a cross-group retarget has opened the pending reroute, it stays
\* anchored at the group, station and time of that first retarget whatever
\* further retargets follow; the tracked target is always the newest fed
\* candidate; and an arrival outside the first origin group after several
\* cross-group retargets records exactly one reroute pair, whose out-record
\* is at the first origin station.
C5_MultiHopCollapse ==
    /\ [](\A v \in DOMAIN veh_state :
            LET h == hist[v]
                vs == veh_state[v]
            IN  /\ h.first_cross # None
                   => vs.pending_reroute
                        = Some([origin_group |-> h.first_cross[1].group,
                                origin_station |-> h.first_cross[1].station,
                                start_t |-> h.first_cross[1].t])
                /\ h.target # None
                   => /\ vs.search_target_station = h.target[1]
                      /\ vs.search_target_group = get_group_id(h.target[1]))
    /\ [][ LET h == hist[last'.veh]
           IN  (AtStation /\ h.crosses >= 2
                          /\ h.first_cross[1].group # get_group_id(last'.cs))
               => OneReroutePair(h.first_cross[1].station, last'.cs,
                                 now - h.first_cross[1].t) ]_vars

C5_Witness ==
    /\ last.op = "arrival" /\ ~no_station(last.cs)
    /\ last.f.crosses = 2 /\ ~last.f.home
    /\ Station(per_station, csA0).reroute_out_times = <<1>>
    /\ Station(per_station, last.cs).reroute_in_times = <<1>>

\* C6: a fed candidate that differs from the current target but resolves to
\* the same group changes the target station only: search_active, the search
\* start time, the target group, the pending reroute, the group counters and
\* the station records stay as they were.
C6_SameGroupRetarget ==
    [][ LET v == last'.veh
            s == last'.cs
            h == hist[v]
        IN  (IsTick /\ s # EmptyStr /\ last'.b = NULL /\ h.target # None
                    /\ h.target[1] # s
                    /\ get_group_id(h.target[1]) = get_group_id(s))
            => /\ veh_state'[v] = [veh_state[v] EXCEPT
                                      !.search_target_station = s,
                                      !.prev_s = s, !.prev_b = last'.b]
               /\ veh_state[v].search_active
               /\ veh_state'[v].search_start_t = Some(h.first_search[1])
               /\ group_session_starts' = group_session_starts
               /\ group_sessions_with_out' = group_sessions_with_out
               /\ per_station' = per_station ]_vars

C6_Witness ==
    /\ last.op = "tick" /\ last.f.retarget /\ last.f.crosses = 1
    /\ veh_state[last.veh].search_target_station = last.cs
    /\ veh_state[last.veh].pending_reroute # None

\* a tick that takes the vehicle from idle to searching
OpensSession ==
    /\ IsTick
    /\ ~veh_of(veh_state, last'.veh).search_active
    /\ veh_state'[last'.veh].search_active

\* C7: a session is opened, and a "sessions started" counter raised, only on
\* a tick whose candidate is non-empty after an empty candidate on the
\* previous tick, with the assigned point "NULL".
C7_OpensOnlyOnBecomingNonEmpty ==
    [][ (OpensSession \/ group_session_starts' # group_session_starts)
        => /\ IsTick
           /\ last'.cs # EmptyStr
           /\ last'.b = NULL
           /\ veh_of(veh_state, last'.veh).prev_s = EmptyStr ]_vars

\* C8: every opened session raises the "sessions started" counter of exactly
\* one group, the group of its first target, by one; every other tick leaves
\* the counters alone; an arrival raises at most one reroute-out numerator,
\* by one, that of the first origin group and only outside that group; no
\* tick and no arrival without a pending reroute changes a numerator.
C8_CountersOncePerSession ==
    [][ /\ OpensSession
           => \E g \in GroupIds :
                 /\ g = get_group_id(last'.cs)
                 /\ \A k \in GroupIds \cup {""} :
                       dict_get(group_session_starts', k)
                           = dict_get(group_session_starts, k)
                             + (IF k = g THEN 1 ELSE 0)
        /\ ~OpensSession => group_session_starts' = group_session_starts
        /\ ~IsArrival => group_sessions_with_out' = group_sessions_with_out
        /\ IsArrival
           => LET h == hist[last'.veh]
                  out == h.first_cross # None /\ ~no_station(last'.cs)
                         /\ h.first_cross[1].group # get_group_id(last'.cs)
                         /\ h.first_cross[1].group # ""
              IN  \A k \in GroupIds \cup {""} :
                     dict_get(group_sessions_with_out', k)
                         = dict_get(group_sessions_with_out, k)
                           + (IF out /\ k = h.first_cross[1].group
                              THEN 1 ELSE 0) ]_vars

\* C9 as stated: after handle_arrival the vehicle is idle, whatever its state
\* before and whatever station id the arrival reports.
C9_AsStated ==
    [][ IsArrival
        => /\ last'.veh \in DOMAIN veh_state'
           /\ IsIdle(veh_state'[last'.veh]) ]_vars

\* C9 amended: after handle_arrival with a station id that is neither empty
\* nor "NULL" the vehicle is idle, whatever its state before; an arrival
\* that reports "" or "NULL" leaves the tracker as it was.
C9_ArrivalResets ==
    [][ /\ AtStation
           => /\ last'.veh \in DOMAIN veh_state'
              /\ IsIdle(veh_state'[last'.veh])
        /\ (IsArrival /\ no_station(last'.cs))
           => /\ veh_state' = veh_state
              /\ per_station' = per_station
              /\ group_session_starts' = group_session_starts
              /\ group_sessions_with_out' = group_sessions_with_out ]_vars

C9_Witness ==
    /\ last.op = "arrival" /\ ~no_station(last.cs)
    /\ last.f.searched /\ last.f.crosses = 2
    /\ IsIdle(veh_state[last.veh])

\* C10: an arrival at a station appends exactly one search duration there,
\* and raises its session count by one, when the vehicle was searching, and
\* changes no station record when it was idle.
C10_SessionIffSearching ==
    [][ AtStation
        => LET h == hist[last'.veh]
           IN  IF h.first_search # None
               THEN OneSessionAt(last'.cs, now - h.first_search[1])
               ELSE per_station' = per_station ]_vars

\* the second arrival of a vehicle that did not search again
C10_Witness ==
    /\ last.op = "arrival" /\ last.veh = "v1" /\ ~no_station(last.cs)
    /\ ~last.f.searched
    /\ arrivals = 2
    /\ "v2" \notin DOMAIN veh_state
    /\ \E c \in StationIds : Station(per_station, c).sessions = 1

\* the report finalize_json would build from the tracker's data
ReportNow == finalize_json(per_station, group_session_starts,
                           group_sessions_with_out)

ReportNext == finalize_json(per_station', group_session_starts',
                            group_sessions_with_out')

Conforming(id) ==
    /\ Len(id) >= 3
    /\ id[1] = "cs"
    /\ id[Len(id)] = "0"
    /\ \A i \in 2..(Len(id) - 1) : id[i] # ""

\* the group of a conforming id
GroupOf(id) == SubSeq(id, 2, Len(id) - 1)

\* C12: a call of either decomposition with an id that does not have the
\* form cs_<group>_<index> raises an error, and neither decomposition gives
\* the same group for two ids of different groups.
C12_IdsDecomposeOrFail ==
    (calc.fn = "ids" /\ calc.out # None)
    => LET a == calc.arg[1]
           b == calc.arg[2]
           out == calc.out[1]
       IN  /\ \A i \in 1..2 :
                 ~Conforming(calc.arg[i])
                 => out[i].tracker.raised /\ out[i].aggregator.raised
           /\ (Conforming(a) /\ Conforming(b) /\ GroupOf(a) # GroupOf(b))
              => /\ out[1].tracker.group # out[2].tracker.group
                 /\ out[1].aggregator.group # out[2].aggregator.group

(***************************************************************************)
(* Properties of the percentiles.                                          *)
(***************************************************************************)
\* ceil(p / 100 * n) for 0 < p < 100
CeilRank(p, n) == CHOOSE r \in 0..n : 100 * (r - 1) < p * n /\ p * n <= 100 * r

\* x is the r-th smallest element of values, ties counted
IsRanked(x, r, values) ==
    /\ \E i \in 1..Len(values) : values[i] = x
    /\ Cardinality({i \in 1..Len(values) : values[i] < x}) < r
    /\ r <= Cardinality({i \in 1..Len(values) : values[i] <= x})

\* the nearest-rank percentile of a non-empty list is x
IsNearestRank(x, p, values) ==
    LET r == CeilRank(p, Len(values))
    IN  IsRanked(x, IF r < 1 THEN 1 ELSE r, values)

\* C18: for a non-empty list and 0 < p < 100 the result is the element at
\* the 0-based index max(1, ceil(p/100 * n)) - 1 of the sorted list; for
\* p <= 0 it is the minimum and for p >= 100 the maximum; it is always an
\* element of the list; for the list 1..10 it is 10 at p = 95 and 5 at
\* p = 50.
C18_NearestRank ==
    (calc.fn = "percentile" /\ calc.out # None /\ calc.arg[1] # <<>>)
    => LET values == calc.arg[1]
           p == calc.arg[2]
           x == calc.out[1]
           n == Len(values)
       IN  /\ \E i \in 1..n : values[i] = x
           /\ (0 < p /\ p < 100) => IsNearestRank(x, p, values)
           /\ p <= 0 => \A i \in 1..n : x <= values[i]
           /\ p >= 100 => \A i \in 1..n : x >= values[i]
           /\ (values \in {OneToTen, TenToOne} /\ p = 95) => x = 10
           /\ (values \in {OneToTen, TenToOne} /\ p = 50) => x = 5

C18_Witness ==
    /\ calc.fn = "percentile"
    /\ calc.arg = <<TenToOne, 95>>
    /\ calc.out = Some(10)

(***************************************************************************)
(* Properties of the report.                                               *)
(***************************************************************************)
\* the duration lists of a set of stations, one after the other
RECURSIVE ConcatOf(_, _)
ConcatOf(S, field) ==
    IF S = {} THEN <<>>
    ELSE LET c == CHOOSE x \in S : TRUE
         IN  per_station[c][field] \o ConcatOf(S \ {c}, field)

StationsOfGroup(g) == {c \in DOMAIN per_station : get_group_id(c) = g}

DurationFields == {"search_times", "reroute_in_times", "reroute_out_times"}

\* the names of the average and of the 95th percentile of a duration list
AvgField(field) ==
    IF field = "search_times" THEN "avg_search_time"
    ELSE IF field = "reroute_in_times" THEN "avg_reroute_in_time"
    ELSE "avg_reroute_out_time"

P95Field(field) ==
    IF field = "search_times" THEN "p95_search_time"
    ELSE IF field = "reroute_in_times" THEN "p95_reroute_in_time"
    ELSE "p95_reroute_out_time"

\* x, in hundredths, is the nearest-rank 95th percentile of the list
IsNearestRankP95(x, values) ==
    IF values = <<>> THEN x = None
    ELSE /\ x # None
         /\ \E i \in 1..Len(values) :
               /\ x[1] = 100 * values[i]
               /\ IsNearestRank(values[i], 95, values)

\* C19: every 95th-percentile value of the report, per station, per group
\* and in the totals, is an element of the duration list it summarises, the
\* one at the sorted index max(1, ceil(0.95 * n)) - 1.
C19_P95IsNearestRank ==
    report # None
    => \A field \in DurationFields :
          /\ \A c \in DOMAIN per_station :
                IsNearestRankP95(report[1].per_station[c][P95Field(field)],
                                 per_station[c][field])
          /\ \A g \in DOMAIN report[1].per_group :
                IsNearestRankP95(report[1].per_group[g][P95Field(field)],
                                 ConcatOf(StationsOfGroup(g), field))
          /\ IsNearestRankP95(report[1].totals[P95Field(field)],
                              ConcatOf(DOMAIN per_station, field))

\* x, in hundredths, is the mean of the list rounded to two decimals
IsMean(x, values) ==
    IF values = <<>> THEN x = None
    ELSE /\ x # None
         /\ LET diff == 100 * SeqSum(values) - x[1] * Len(values)
            IN  2 * diff <= Len(values) /\ 2 * (0 - diff) <= Len(values)

\* C20: the average and the 95th percentile of every duration list of a
\* group, and of the totals, are those of the concatenation of the lists of
\* the group's stations, respectively of all the stations.
C20_GroupsByConcatenation ==
    report # None
    => \A field \in DurationFields :
          /\ \A g \in DOMAIN report[1].per_group :
                LET all == ConcatOf(StationsOfGroup(g), field)
                IN  /\ IsMean(report[1].per_group[g][AvgField(field)], all)
                    /\ report[1].per_group[g][P95Field(field)]
                           = round2(_percentile(all, 95))
          /\ LET all == ConcatOf(DOMAIN per_station, field)
             IN  /\ IsMean(report[1].totals[AvgField(field)], all)
                 /\ report[1].totals[P95Field(field)]
                        = round2(_percentile(all, 95))

\* two stations of a group holding 1 and 3 durations: the mean of the four
\* is 3.25, the mean of the two station means is 3.83
C20_Witness ==
    /\ report # None
    /\ csA0 \in DOMAIN per_station /\ csA1 \in DOMAIN per_station
    /\ per_station[csA0].search_times = <<5>>
    /\ per_station[csA1].search_times = <<1, 2, 5>>
    /\ report[1].per_group["e1"].avg_search_time = Some(325)
    /\ report[1].per_station[csA0].avg_search_time = Some(500)
    /\ report[1].per_station[csA1].avg_search_time = Some(267)

\* x, in hundredths, is a / b rounded to two decimals, and null when b is 0
IsRatio(x, a, b) ==
    IF b = 0 THEN x = None
    ELSE /\ x # None
         /\ LET diff == 100 * a - x[1] * b
            IN  2 * diff <= b /\ 2 * (0 - diff) <= b

\* C21: in the report of any moment, the reroute-in ratio of a group is the
\* number of sessions that arrived in the group from another group over the
\* number of sessions that arrived in the group, and its reroute-out ratio
\* is the number of sessions that started in the group and arrived in
\* another over the number of sessions that started in the group.
C21_ParticipationRatios ==
    \A g \in DOMAIN ReportNow.per_group :
        /\ IsRatio(ReportNow.per_group[g].percent_reroute_in_sessions,
                   dict_get(tally.with_in, g), dict_get(tally.arrived, g))
        /\ IsRatio(ReportNow.per_group[g].percent_reroute_out_sessions,
                   dict_get(tally.out, g), dict_get(tally.started, g))

\* two sessions started in e1, one of them arrived in e2
C21_Witness ==
    /\ dict_get(tally.started, "e1") = 2
    /\ dict_get(tally.out, "e1") = 1
    /\ dict_get(tally.arrived, "e1") = 1
    /\ dict_get(tally.arrived, "e2") = 1
    /\ "e1" \in DOMAIN ReportNow.per_group
    /\ ReportNow.per_group["e1"].percent_reroute_out_sessions = Some(50)
    /\ ReportNow.per_group["e1"].percent_reroute_in_sessions = Some(0)
    /\ ReportNow.per_group["e2"].percent_reroute_in_sessions = Some(100)

\* the fields of the report that are a quotient
QuotientFields ==
    {AvgField(field) : field \in DurationFields}
    \cup {P95Field(field) : field \in DurationFields}
    \cup {"percent_reroute_in_sessions", "percent_reroute_out_sessions",
          "percent_reroute_in_sessions_total",
          "percent_reroute_out_sessions_total"}

Defined(entry) == \A f \in DOMAIN entry \cap QuotientFields : entry[f] # None

\* C24: every average, 95th percentile and participation ratio of the
\* report is a number, zero when it is taken over nothing, never null.
C24_NeutralZeroInReport ==
    report # None
    => /\ \A c \in DOMAIN report[1].per_station :
              Defined(report[1].per_station[c])
       /\ \A g \in DOMAIN report[1].per_group :
              Defined(report[1].per_group[g])
       /\ Defined(report[1].totals)

\* C33: for every vehicle the tracker knows, a pending reroute exists only
\* while a search is active, a search is active exactly when its start
\* time is set, and an active search has a non-empty target station.
C33_VehicleStateConsistent ==
    \A v \in DOMAIN veh_state :
        LET vs == veh_state[v]
        IN  /\ vs.pending_reroute # None => vs.search_active
            /\ vs.search_active <=> vs.search_start_t # None
            /\ vs.search_active => vs.search_target_station # EmptyStr

\* one vehicle is searching with a reroute pending while another is idle
\* after its arrival
C33_Witness ==
    /\ \E v \in DOMAIN veh_state :
           /\ veh_state[v].pending_reroute # None
           /\ veh_state[v].search_active
           /\ veh_state[v].search_target_station = csB0
    /\ \E w \in DOMAIN veh_state :
           /\ ~veh_state[w].search_active
           /\ hist[w] = NoHistory
           /\ arrivals > 0

RECURSIVE CountOver(_, _)
CountOver(S, field) ==
    IF S = {} THEN 0
    ELSE LET c == CHOOSE x \in S : TRUE
         IN  per_station[c][field] + CountOver(S \ {c}, field)

\* C34: over all stations there are as many reroute-out records as
\* reroute-in records, and the reroute-out durations are, as a multiset,
\* the reroute-in durations.
C34_ReroutesInPairs ==
    /\ CountOver(DOMAIN per_station, "reroute_out_count") =
           CountOver(DOMAIN per_station, "reroute_in_count")
    /\ Len(ConcatOf(DOMAIN per_station, "reroute_out_times")) =
           Len(ConcatOf(DOMAIN per_station, "reroute_in_times"))
    /\ sorted(ConcatOf(DOMAIN per_station, "reroute_out_times")) =
           sorted(ConcatOf(DOMAIN per_station, "reroute_in_times"))

\* one reroute of duration 1 was recorded, out of cs_e1_1 and in at cs_e2_0
C34_Witness ==
    /\ DOMAIN per_station = {csA1, csB0}
    /\ per_station[csA1].reroute_out_times = <<1>>
    /\ per_station[csA1].reroute_in_times = <<>>
    /\ per_station[csB0].reroute_in_times = <<1>>
    /\ CountOver(DOMAIN per_station, "reroute_out_count") = 1

\* C35: for every group the reroute-out numerator is at most the count of
\* sessions started in it, and for every station the number of sessions
\* with a reroute-in is at most its number of sessions.
C35_RatiosAtMostOne ==
    /\ \A g \in DOMAIN group_sessions_with_out :
           group_sessions_with_out[g] <= dict_get(group_session_starts, g)
    /\ \A c \in DOMAIN per_station :
           per_station[c].sessions_with_in <= per_station[c].sessions

\* the one session started in e1 left it, and the one session of cs_e2_0
\* came from another group
C35_Witness ==
    /\ dict_get(group_session_starts, "e1") = 1
    /\ dict_get(group_sessions_with_out, "e1") = 1
    /\ csB0 \in DOMAIN per_station
    /\ per_station[csB0].sessions = 1
    /\ per_station[csB0].sessions_with_in = 1

\* C36: for every station, sessions is the length of search_times,
\* reroute_in_count the length of reroute_in_times and reroute_out_count
\* the length of reroute_out_times.
C36_CountersMatchLists ==
    \A c \in DOMAIN per_station :
        /\ per_station[c].sessions = Len(per_station[c].search_times)
        /\ per_station[c].reroute_in_count = Len(per_station[c].reroute_in_times)
        /\ per_station[c].reroute_out_count =
               Len(per_station[c].reroute_out_times)

\* a station with two sessions, one of them rerouted in
C36_Witness ==
    /\ csB0 \in DOMAIN per_station
    /\ Len(per_station[csB0].search_times) = 2
    /\ per_station[csB0].reroute_in_count = 1
    /\ \E c \in DOMAIN per_station : per_station[c].reroute_out_count = 1

NonNegative(ps) ==
    \A c \in DOMAIN ps : \A field \in DurationFields :
        \A i \in 1..Len(ps[c][field]) : ps[c][field][i] >= 0

\* C37: an arrival leaves every recorded duration non-negative, and where
\* it records a reroute it records a search duration of the same session
\* that is at least the reroute duration.
C37_DurationsOrdered ==
    [][ AtStation
        => LET before == Station(per_station, last'.cs)
               after == Station(per_station', last'.cs)
               ins == after.reroute_in_times
               searches == after.search_times
           IN  /\ NonNegative(per_station')
               /\ Len(ins) > Len(before.reroute_in_times)
                  => /\ Len(searches) > Len(before.search_times)
                     /\ ins[Len(ins)] <= searches[Len(searches)] ]_vars

\* a session that searched for 2 time units, the last one of them on its
\* way to another group
C37_Witness ==
    /\ csB0 \in DOMAIN per_station
    /\ per_station[csB0].search_times = <<2>>
    /\ per_station[csB0].reroute_in_times = <<1>>

\* what the step leaves alone of the state of the vehicles other than v
OthersUntouched(v) ==
    /\ DOMAIN veh_state' \ {v} = DOMAIN veh_state \ {v}
    /\ \A w \in DOMAIN veh_state \ {v} : veh_state'[w] = veh_state[w]

\* the keys at which a dictionary of counters was changed
ChangedKeys(before, after) ==
    {k \in DOMAIN before \cup DOMAIN after :
        dict_get(before, k) # dict_get(after, k)}

\* the stations whose record was created or changed
ChangedStations ==
    {c \in DOMAIN per_station \cup DOMAIN per_station' :
        \/ c \notin DOMAIN per_station
        \/ c \notin DOMAIN per_station'
        \/ per_station'[c] # per_station[c]}

\* the arrival station and the origin station of the vehicle's pending
\* reroute
ArrivalStations(v, cs_id) ==
    {cs_id} \cup
    (IF v \in DOMAIN veh_state /\ veh_state[v].pending_reroute # None
     THEN {veh_state[v].pending_reroute[1].origin_station} ELSE {})

\* C38: a tick of vehicle v changes nothing but v's state and at most one
\* group's count of started sessions; an arrival of v changes nothing but
\* v's state, the records of the arrival station and of the origin station
\* of v's pending reroute, and at most one reroute-out numerator.
C38_PerVehicleIsolation ==
    [][ /\ IsTick
           => /\ OthersUntouched(last'.veh)
              /\ per_station' = per_station
              /\ group_sessions_with_out' = group_sessions_with_out
              /\ Cardinality(ChangedKeys(group_session_starts,
                                         group_session_starts')) <= 1
        /\ IsArrival
           => /\ OthersUntouched(last'.veh)
              /\ ChangedStations \subseteq ArrivalStations(last'.veh, last'.cs)
              /\ group_session_starts' = group_session_starts
              /\ Cardinality(ChangedKeys(group_sessions_with_out,
                                         group_sessions_with_out')) <= 1 ]_vars

\* the second vehicle has just arrived while the first one is searching
\* with a reroute pending, and the records of cs_e1_1 and cs_e2_0 exist
C38_Witness ==
    /\ last.op = "arrival"
    /\ last.veh = VehOrder[2]
    /\ VehOrder[1] \in DOMAIN veh_state
    /\ veh_state[VehOrder[1]].search_active
    /\ veh_state[VehOrder[1]].pending_reroute # None
    /\ DOMAIN per_station = {csA1, csB0}
    /\ per_station[csB0].sessions = 1

(***************************************************************************)
(* Properties of the power controller.                                     *)
(***************************************************************************)
RECURSIVE FracSum(_)
FracSum(q) == IF q = <<>> THEN <<0, 1>> ELSE FracAdd(Head(q), FracSum(Tail(q)))

\* the delivered power written for the occupants of a group, summed
GroupDelivered(group) ==
    LET csGroup == cs_of_group(vehList, vehCs, group)
    IN  FracSum([i \in 1..Len(csGroup) |-> power[csGroup[i]]])

PowerGroups == {station_group[c] : c \in PowerStations}

\* C1: at the end of every tick the delivered power of the occupants of a
\* group sums to at most the group's power cap.
C1_GroupPowerCap ==
    \A g \in PowerGroups : FracLeq(GroupDelivered(g), <<groupPower[g], 1>>)

\* the points taken by the vehicles of a list
OccupiedPoints(lst, cs) == {cs[v] : v \in ListSet(lst)}

PointsOf(g) == {c \in PowerStations : station_group[c] = g}

RECURSIVE SumOver(_, _)
SumOver(f, S) ==
    IF S = {} THEN 0
    ELSE LET x == CHOOSE y \in S : TRUE IN f[x] + SumOver(f, S \ {x})

\* the "desiredPower" phase 1 of the step finds at a point: what phase 2 of
\* the tick before wrote, or 0 at a point whose occupant has just arrived
StoredDemand(c) ==
    IF c \in OccupiedPoints(vehList, vehCs) THEN desiredPower[c] ELSE 0

IsPowerTick == ptick' # ptick

\* C13: in every tick, each group with occupants gets, at its occupied
\* points, the factor cap / sum when the stored base desired powers of these
\* points sum to more than the group's cap, and the factor 1 otherwise, a
\* zero sum included.
C13_FairShareFactor ==
    [][ IsPowerTick
        => \A g \in PowerGroups :
              LET occ == OccupiedPoints(vehList', vehCs') \cap PointsOf(g)
                  total == SumOver([c \in occ |-> StoredDemand(c)], occ)
              IN  \A c \in occ :
                     aliquot'[c] = IF total > 3 * groupPower[g]
                                   THEN Frac(3 * groupPower[g], total)
                                   ELSE <<1, 1>> ]_vars

\* two occupants of group e1 throttled to 20/22 of their demand
C13_Witness ==
    /\ Len(vehList) = 2
    /\ OccupiedPoints(vehList, vehCs) = {csA0, csA1}
    /\ groupPower["e1"] = 20
    /\ aliquot[csA0] = <<10, 11>>
    /\ aliquot[csA1] = <<10, 11>>

\* C14: all the points of one group hold the same factor, the points
\* without an occupant included.
C14_SameFactorInGroup ==
    \A c, d \in PowerStations :
        station_group[c] = station_group[d] => aliquot[c] = aliquot[d]

\* the base power of an occupant, in thirds: the least of the state-of-charge
\* ceiling, the point's rated output and the vehicle's intake limit
BaseOf(v, c) ==
    LET taper == 11 * maximumBatteryCapacity[v] - 10 * actualBattery[v]
        rated == 3 * allowedPowerOutput[c]
        intake == 3 * allowedPowerIntake
    IN  IF taper <= rated /\ taper <= intake THEN taper
        ELSE IF rated <= intake THEN rated ELSE intake

\* C15: for every occupant the stored desired power of its point is the
\* unscaled base power and the delivered power is the base power times the
\* point's factor, so that the next tick's phase 1 sums unscaled demands.
C15_BaseAndDelivered ==
    \A v \in ListSet(vehList) :
        LET c == vehCs[v]
        IN  /\ desiredPower[c] = BaseOf(v, c)
            /\ power[c] = Frac(BaseOf(v, c) * aliquot[c][1], 3 * aliquot[c][2])

\* an occupant bound by its intake limit and throttled
C15_Witness ==
    /\ \E v \in ListSet(vehList) : vehCs[v] = csA1 /\ actualBattery[v] = 0
    /\ desiredPower[csA1] = 3 * allowedPowerIntake
    /\ aliquot[csA1] = <<10, 11>>
    /\ power[csA1] = <<120, 11>>

\* C16: at the end of a tick, two occupants of a group whose base desired
\* powers sum to 150% of the group's cap each hold the delivered power
\* base * cap / sum, and the occupants of a group whose base desired powers
\* sum to at most the cap each hold their base power.
C16_FairShareOutcome ==
    \A g \in PowerGroups :
        LET occ == OccupiedPoints(vehList, vehCs) \cap PointsOf(g)
            total == SumOver([c \in occ |-> desiredPower[c]], occ)
        IN  /\ (Cardinality(occ) = 2 /\ 2 * total = 9 * groupPower[g])
               => \A c \in occ :
                     power[c] = Frac(desiredPower[c] * 3 * groupPower[g],
                                     3 * total)
            /\ (occ # {} /\ total <= 3 * groupPower[g])
               => \A c \in occ : power[c] = Frac(desiredPower[c], 3)

\* C17: a tick that finds the occupants, their points and their battery
\* energies as the tick before found them gives every occupied point the
\* factor and the delivered power the tick before gave it.
C17_StatelessAcrossTicks ==
    [][ (IsPowerTick /\ ptick >= 1 /\ vehList' = vehList /\ vehCs' = vehCs
                     /\ actualBattery' = actualBattery)
        => \A c \in OccupiedPoints(vehList, vehCs) :
              aliquot'[c] = aliquot[c] /\ power'[c] = power[c] ]_vars

\* the occupants of a group with their points, and their base powers (in
\* thirds) at given battery readings
OccupantsOf(lst, cs, g) ==
    {<<v, cs[v]>> : v \in {w \in ListSet(lst) : station_group[cs[w]] = g}}

BaseAt(v, c, battery) ==
    LET taper == 11 * maximumBatteryCapacity[v] - 10 * battery[v]
        rated == 3 * allowedPowerOutput[c]
        intake == 3 * allowedPowerIntake
    IN  IF taper <= rated /\ taper <= intake THEN taper
        ELSE IF rated <= intake THEN rated ELSE intake

RECURSIVE BaseSum(_, _)
BaseSum(occ, battery) ==
    IF occ = {} THEN 0
    ELSE LET o == CHOOSE x \in occ : TRUE
         IN  BaseAt(o[1], o[2], battery) + BaseSum(occ \ {o}, battery)

\* tick N+1 finds the occupants of the group as tick N left them and none
\* of their base powers has grown
SettledTick(g) ==
    /\ IsPowerTick
    /\ OccupantsOf(vehList', vehCs', g) = OccupantsOf(vehList, vehCs, g)
    /\ \A o \in OccupantsOf(vehList, vehCs, g) :
           BaseAt(o[1], o[2], actualBattery') <= BaseAt(o[1], o[2], actualBattery)

BasesUnchanged(g) ==
    \A o \in OccupantsOf(vehList, vehCs, g) :
        BaseAt(o[1], o[2], actualBattery') = BaseAt(o[1], o[2], actualBattery)

DeliveredNext(g) ==
    LET csGroup == cs_of_group(vehList', vehCs', g)
    IN  FracSum([i \in 1..Len(csGroup) |-> power'[csGroup[i]]])

\* C31 as stated: after a settled tick the delivered power of the group
\* sums to at most the cap, and to the cap if and only if the base powers
\* are unchanged and sum to more than the cap.
C31_ConvergesExactlyWhen ==
    [][ \A g \in PowerGroups :
           SettledTick(g)
           => /\ FracLeq(DeliveredNext(g), <<groupPower[g], 1>>)
              /\ (DeliveredNext(g) = <<groupPower[g], 1>>)
                 <=> (/\ BasesUnchanged(g)
                      /\ BaseSum(OccupantsOf(vehList, vehCs, g), actualBattery)
                             > 3 * groupPower[g]) ]_vars

\* C31: after a settled tick the delivered power of the group sums to at
\* most the cap; it sums to the cap when the base powers are unchanged and
\* sum to more than the cap, and it sums to the cap only when the base
\* powers of the tick before sum to at least the cap.
C31_ConvergesAfterOneTick ==
    [][ \A g \in PowerGroups :
           SettledTick(g)
           => LET before == BaseSum(OccupantsOf(vehList, vehCs, g),
                                    actualBattery)
              IN  /\ FracLeq(DeliveredNext(g), <<groupPower[g], 1>>)
                  /\ (BasesUnchanged(g) /\ before > 3 * groupPower[g])
                     => DeliveredNext(g) = <<groupPower[g], 1>>
                  /\ (DeliveredNext(g) = <<groupPower[g], 1>>)
                     => (before >= 3 * groupPower[g]
                         /\ (before > 3 * groupPower[g] => BasesUnchanged(g))) ]_vars

\* two occupants of e1 whose demands of 10 and 12 were stored by the tick
\* before share the cap of 20
C31_Witness ==
    /\ ptick >= 2
    /\ Len(vehList) = 2
    /\ OccupiedPoints(vehList, vehCs) = {csA0, csA1}
    /\ groupPower["e1"] = 20
    /\ desiredPower[csA0] + desiredPower[csA1] = 66
    /\ aliquot[csA0] = <<10, 11>>
    /\ GroupDelivered("e1") = <<20, 1>>

\* C32: at the end of every tick the factor of every occupied point is
\* above 0 and at most 1, and the power delivered there is at most the
\* occupant's base power, the point's rated output and the vehicle's
\* intake limit.
C32_PhysicalLimits ==
    \A v \in ListSet(vehList) :
        LET c == vehCs[v]
        IN  /\ aliquot[c][1] > 0 /\ aliquot[c][2] > 0
            /\ FracLeq(aliquot[c], <<1, 1>>)
            /\ FracLeq(power[c], <<BaseAt(v, c, actualBattery), 3>>)
            /\ FracLeq(power[c], <<allowedPowerOutput[c], 1>>)
            /\ FracLeq(power[c], <<allowedPowerIntake, 1>>)

\* a throttled occupant of cs_e1_0, below its rating of 10
C32_Witness ==
    /\ \E v \in ListSet(vehList) : vehCs[v] = csA0 /\ actualBattery[v] = 0
    /\ groupPower["e1"] = 8
    /\ aliquot[csA0] = <<4, 5>>
    /\ power[csA0] = <<8, 1>>

(***************************************************************************)
(* Properties of the power controller over vehicles of any capacity.       *)
(***************************************************************************)
MaxBatteryOf(v) == calc.arg[v]
IsFaultTick == ptick' = ptick + 1 /\ calc'.out # None

\* C22: in a tick where the power computation of one occupant fails, every
\* other occupant's point gets, in that tick, the base power of its
\* occupant as desired power and that base times its factor as power.
C22_OccupantErrorIsolation ==
    [][IsFaultTick =>
          \A i \in 1..Len(vehList') :
              LET v == vehList'[i]
                  c == vehCs'[v]
                  p == min_of_ceilings(MaxBatteryOf(v), actualBattery'[v], c)
              IN  MaxBatteryOf(v) # 0 =>
                      /\ desiredPower'[c] = p
                      /\ power'[c] = Frac(p * aliquot'[c][1],
                                          3 * aliquot'[c][2])]_vars

\* C23: no vehicle of maximum capacity 0 is ever among the vehicles the
\* controller computes a power for, and no division by zero is raised.
C23_ZeroCapacityRejected ==
    /\ \A i \in 1..Len(vehList) : MaxBatteryOf(vehList[i]) # 0
    /\ calc.out # Some(ZeroDivisionError)

(***************************************************************************)
(* Properties of _find_queue_entry_time.                                   *)
(***************************************************************************)
\* the indices of the samples at or before t_end that are in the zone
InZoneBefore(samples, zone, t_end) ==
    {i \in 1..Len(samples) : samples[i][1] <= t_end /\ samples[i][2] \in zone}

\* the first index of the contiguous in-zone run that holds index j
RunStart(samples, zone, j) ==
    CHOOSE r \in 1..j :
        /\ \A m \in r..j : samples[m][2] \in zone
        /\ (r > 1 => samples[r - 1][2] \notin zone)

Latest(indices) == CHOOSE j \in indices : \A i \in indices : i <= j

\* C30: the result is the time of the first sample of the most recent
\* in-zone run that begins at or before t_end whenever a sample at or
\* before t_end is in the zone, and None only when there is none.
C30_QueueEntryTime ==
    (calc.fn = "entry" /\ calc.out # None)
    => LET samples == calc.arg.samples
           zone == calc.arg.zone
           seen == InZoneBefore(samples, zone, calc.arg.t_end)
       IN  IF seen = {} THEN calc.out[1] = None
           ELSE calc.out[1] =
                    Some(samples[RunStart(samples, zone, Latest(seen))][1])

(***************************************************************************)
(* Properties of _compute_session_waits_and_queues.                        *)
(***************************************************************************)
IsSessionStep == calc.fn = "sessions" /\ calc' # calc
CurrentEvent == calc.arg.events[calc.out.next]
Decomposable(station_id) ==
    Len(station_id) >= 3 /\ station_id[1] = "cs"
ListOf(d, k) == IF k \in DOMAIN d THEN d[k] ELSE <<>>

\* C25: the step of a session whose station id cannot be decomposed
\* leaves the loop running: the record is passed over, what was computed
\* for the sessions before it is kept, and the next session is taken up.
C25_SessionErrorsSkipped ==
    [][(IsSessionStep /\ ~Decomposable(CurrentEvent[1]))
       => /\ calc'.out.raised = None
          /\ calc'.out.next = calc.out.next + 1]_vars

\* the vehicles with a session that stand on the lane at time t
StandingOn(lane, t) ==
    {v \in vehicles_of(calc.arg.events) :
        /\ calc.arg.fcd[v][t] # None
        /\ calc.arg.fcd[v][t][1][1] = lane
        /\ calc.arg.fcd[v][t][1][2] = 0}

IsQueueDepth(q, lane, t_begin, t_end) ==
    LET span == {t \in FcdTimes : t_begin <= t /\ t <= t_end}
    IN  /\ \A t \in span : q >= Cardinality(StandingOn(lane, t))
        /\ \/ q = 0
           \/ \E t \in span : q = Cardinality(StandingOn(lane, t))

\* C26: the step of a session appends one queue value to its station's
\* list: the largest number, over the sampled times from chargingBegin to
\* chargingEnd, of vehicles with a session standing on the point's own
\* lane, and 0 when no vehicle stands there in the span.
C26_QueueDepth ==
    [][(IsSessionStep /\ Decomposable(CurrentEvent[1]))
       => LET station_id == CurrentEvent[1]
              lane == <<"cs_lanes", SubSeq(station_id, 2, Len(station_id) - 1),
                        station_id[Len(station_id)]>>
              before == ListOf(calc.out.queues, station_id)
              after == ListOf(calc'.out.queues, station_id)
          IN  /\ Len(after) = Len(before) + 1
              /\ SubSeq(after, 1, Len(before)) = before
              /\ IsQueueDepth(after[Len(after)], lane,
                              CurrentEvent[3], CurrentEvent[4])]_vars

\* both sessions were at cs_e1_0 with two vehicles standing on its lane,
\* or one session only and the other vehicle standing there uncounted
C26_Witness ==
    /\ calc.fn = "sessions"
    /\ calc.out.next > Len(calc.arg.events)
    /\ \/ /\ Len(calc.arg.events) = 2
          /\ ListOf(calc.out.queues, csA0) = <<2, 2>>
       \/ /\ Len(calc.arg.events) = 1
          /\ ListOf(calc.out.queues, csA0) = <<1>>
          /\ \E t \in FcdTimes :
                 calc.arg.fcd[VehOrder[2]][t] = Some(<<cs_lanes(<<"e1">>, "0"), 0>>)

\* the vehicle of the session has no sample at or before chargingBegin
NoSampleBefore(ev) ==
    \A t \in FcdTimes : t <= ev[3] => calc.arg.fcd[ev[2]][t] = None

\* C27: the step of a session whose vehicle has no sample at or before
\* chargingBegin records no wait, records the session's queue value and
\* goes on to the next session.
C27_NoSampleNoWait ==
    [][(IsSessionStep /\ Decomposable(CurrentEvent[1])
            /\ NoSampleBefore(CurrentEvent))
       => /\ calc'.out.waits = calc.out.waits
          /\ calc'.out.raised = None
          /\ calc'.out.next = calc.out.next + 1
          /\ Len(ListOf(calc'.out.queues, CurrentEvent[1])) =
                 Len(ListOf(calc.out.queues, CurrentEvent[1])) + 1]_vars

\* the first session had no sample before its deadline, the second one
\* was processed after it and has its wait recorded
C27_Witness ==
    /\ calc.fn = "sessions"
    /\ Len(calc.arg.events) = 2
    /\ calc.out.next = 3
    /\ NoSampleBefore(calc.arg.events[1])
    /\ \E t \in FcdTimes : calc.arg.fcd[VehOrder[1]][t] # None
    /\ calc.arg.events[1][1] # calc.arg.events[2][1]
    /\ DOMAIN calc.out.waits = {calc.arg.events[2][1]}
    /\ calc.arg.events[1][1] \in DOMAIN calc.out.queues

(***************************************************************************)
(* Properties of the wait-time statistics of _compute_group_and_totals.    *)
(***************************************************************************)
\* the waits of the stations of a set, one list after the other
RECURSIVE WaitsOf(_, _)
WaitsOf(station_metrics, stations) ==
    IF stations = {} THEN <<>>
    ELSE LET c == CHOOSE x \in stations : TRUE
         IN  station_metrics[c] \o WaitsOf(station_metrics, stations \ {c})

OfConcatenation(entry, waits) ==
    /\ entry.avg_session_wait_time =
           (IF waits = <<>> THEN <<0, 1>> ELSE Frac(SeqSum(waits), Len(waits)))
    /\ entry.p95_session_wait_time =
           (IF waits = <<>> THEN <<0, 1>>
            ELSE <<_percentile_nearest_rank(waits, 95), 1>>)

\* C29: the average and the 95th percentile of the session waits of a
\* group, and of the run, are those of the list made of the waits of all
\* its stations.
C29_WaitsByConcatenation ==
    (calc.fn = "waits" /\ calc.out # None)
    => /\ \A e \in DOMAIN calc.out[1].per_group :
              OfConcatenation(calc.out[1].per_group[e],
                  WaitsOf(calc.arg, {c \in DOMAIN calc.arg : c[2] = e[1]}))
       /\ OfConcatenation(calc.out[1].totals,
                          WaitsOf(calc.arg, DOMAIN calc.arg))

(***************************************************************************)
(* Properties of one vehicle's run.                                        *)
(***************************************************************************)
Arrived == calc.fn = "scenario" /\ now >= ArrivalTime(calc.arg)

\* the durations of one kind recorded at the stations other than c
NoneElsewhere(c, field) ==
    \A d \in DOMAIN per_station \ {c} : per_station[d][field] = <<>>

\* C28: once the vehicle has arrived, and at every step of its stay, the
\* tracker holds one search duration of SearchLeg + DetourLeg at cs_e2_0,
\* one reroute-in of DetourLeg there and one reroute-out of DetourLeg at
\* the last station of e1 it aimed at, and nothing else; the factor of
\* cs_e2_0 is 1 and its power is the least of the three ceilings.
C28_EndToEnd ==
    Arrived
    => /\ csB0 \in DOMAIN per_station
       /\ per_station[csB0].sessions = 1
       /\ per_station[csB0].search_times = <<SearchLeg + DetourLeg>>
       /\ NoneElsewhere(csB0, "search_times")
       /\ per_station[csB0].reroute_in_times = <<DetourLeg>>
       /\ NoneElsewhere(csB0, "reroute_in_times")
       /\ calc.out # None
       /\ calc.out[1] \in DOMAIN per_station
       /\ per_station[calc.out[1]].reroute_out_times = <<DetourLeg>>
       /\ NoneElsewhere(calc.out[1], "reroute_out_times")
       /\ group_session_starts = ("e1" :> 1)
       /\ group_sessions_with_out = ("e1" :> 1)
       /\ aliquot[csB0] = <<1, 1>>
       /\ power[csB0] =
              Frac(Min(11 * maximumBatteryCapacity[Traveller]
                           - 10 * actualBattery[Traveller],
                       Min(3 * allowedPowerOutput[csB0], 3 * allowedPowerIntake)),
                   3)

\* the end of a stay that began below the rating and ended at the
\* state-of-charge ceiling, the vehicle having left cs_e1_1 for cs_e2_0
C28_Witness ==
    /\ calc.fn = "scenario"
    /\ now = ArrivalTime(calc.arg) + MaxStay
    /\ calc.out = Some(csA1)
    /\ per_station[csA1].reroute_out_times = <<DetourLeg>>
    /\ per_station[csB0].search_times = <<SearchLeg + DetourLeg>>
    /\ vehList = <<Traveller>>
    /\ actualBattery[Traveller] = 6
    /\ power[csB0] = <<2, 1>>
    /\ desiredPower[csB0] = 6

====
